---------------------------- MODULE Spec2Model ----------------------------
(***************************************************************************)
(* The kre8 sound-catalog pipeline.                                        *)
(*                                                                         *)
(* Stage 1 (scripts/sound-catalog/build_catalog.py) turns six literal      *)
(* tables into one list of sound records and dumps it as JSON.  Stage 2    *)
(* (scripts/sound-catalog/generate_embeddings.py) reads a catalog file,    *)
(* loads the BGE-M3 model through one of two libraries, builds a search    *)
(* text per record, embeds all texts in one call, attaches vector and text *)
(* to every record and dumps the result.                                   *)
(*                                                                         *)
(* Python values are modelled as follows.  A str is a TLA+ string; a list  *)
(* is a sequence; a dict with string keys is a function whose domain is    *)
(* its key set (a record), so assigning to a key adds or overwrites it; a  *)
(* dict that is only iterated with .items() (the six tables) is the        *)
(* sequence of its <<key, value>> pairs in insertion order.  The file      *)
(* system is a function from the two paths the scripts use to a file's     *)
(* content.  The scripts are run one at a time, each run to its end.       *)
(* Stage 2 is one process in which main and generate_embedding are called  *)
(* one after the other; its module-level _model_cache lives as long as the *)
(* behaviour.                                                              *)
(***************************************************************************)
EXTENDS Integers, Sequences, FiniteSets, TLC

(***************************************************************************)
(* Bounds of the model.                                                    *)
(***************************************************************************)
\* How many operations (runs of stage 1, calls of main, calls of
\* generate_embedding) one behaviour holds.
MaxRuns == 2
\* Longest hand-made catalog found at the catalog path before any run.
MaxInputLen == 2
\* Output dimensionality of the loaded embedding model (1024 for BGE-M3),
\* scaled down: the code never reads it, it only passes the vectors on.
ModelDim == 3

(***************************************************************************)
(* The six literal tables of build_catalog, in the order of the source.    *)
(* Each is the sequence of the dict's <<key, value>> items.                *)
(***************************************************************************)
gm_soundfonts ==
  <<
     <<"gm_acoustic_grand_piano", [description |-> "Grand piano, realistic sampled acoustic piano. Best for classical, jazz, ballads. Warm, full-bodied tone with natural resonance.", category |-> "keyboards", tags |-> <<"piano", "acoustic", "classical", "jazz", "ballad", "warm", "orchestral">>, example |-> "note(\"c4 e4 g4\").s(\"gm_acoustic_grand_piano\")"]>>,
     <<"gm_bright_acoustic_piano", [description |-> "Bright acoustic piano with more presence in high frequencies. Cuts through mixes well. Good for pop and contemporary.", category |-> "keyboards", tags |-> <<"piano", "acoustic", "bright", "pop", "contemporary">>, example |-> "note(\"c4 e4 g4\").s(\"gm_bright_acoustic_piano\")"]>>,
     <<"gm_electric_grand_piano", [description |-> "Electric grand piano, hybrid between acoustic and electric. Vintage 70s sound.", category |-> "keyboards", tags |-> <<"piano", "electric", "vintage", "70s">>, example |-> "note(\"c4 e4 g4\").s(\"gm_electric_grand_piano\")"]>>,
     <<"gm_honky_tonk_piano", [description |-> "Detuned saloon piano with ragtime character. Slightly out of tune for authentic honky-tonk feel.", category |-> "keyboards", tags |-> <<"piano", "honky-tonk", "ragtime", "detuned", "vintage", "saloon">>, example |-> "note(\"c4 e4 g4\").s(\"gm_honky_tonk_piano\")"]>>,
     <<"gm_epiano1", [description |-> "Electric piano 1, Rhodes-like warm electric piano. Classic soul, R&B, jazz fusion sound. Smooth and bell-like.", category |-> "keyboards", tags |-> <<"piano", "electric", "rhodes", "soul", "r&b", "jazz", "warm", "bell-like">>, example |-> "note(\"c4 e4 g4\").s(\"gm_epiano1\")"]>>,
     <<"gm_epiano2", [description |-> "Electric piano 2, brighter electric piano variant. More bite than epiano1. FM-style tines.", category |-> "keyboards", tags |-> <<"piano", "electric", "bright", "fm", "tines">>, example |-> "note(\"c4 e4 g4\").s(\"gm_epiano2\")"]>>,
     <<"gm_harpsichord", [description |-> "Baroque harpsichord with plucked string character. Essential for baroque and renaissance music.", category |-> "keyboards", tags |-> <<"harpsichord", "baroque", "renaissance", "plucked", "classical", "historical">>, example |-> "note(\"c4 e4 g4\").s(\"gm_harpsichord\")"]>>,
     <<"gm_clavinet", [description |-> "Funky clavinet, percussive keyboard. Classic funk and soul sound. Wah-wah compatible.", category |-> "keyboards", tags |-> <<"clavinet", "funk", "soul", "percussive", "wah">>, example |-> "note(\"c4 e4 g4\").s(\"gm_clavinet\")"]>>,
     <<"gm_celesta", [description |-> "Celesta, magical bell-like keyboard. Sparkling, ethereal quality. Think Nutcracker Suite.", category |-> "keyboards", tags |-> <<"celesta", "bells", "magical", "ethereal", "orchestral", "christmas">>, example |-> "note(\"c5 e5 g5\").s(\"gm_celesta\")"]>>,
     <<"gm_music_box", [description |-> "Music box, delicate mechanical bell sound. Nostalgic, toy-like, innocent quality.", category |-> "keyboards", tags |-> <<"music-box", "bells", "toy", "nostalgic", "innocent", "delicate">>, example |-> "note(\"c5 e5 g5\").s(\"gm_music_box\")"]>>,
     <<"gm_vibraphone", [description |-> "Vibraphone, mellow mallet percussion with motor vibrato. Jazz standard, smooth and warm.", category |-> "chromatic_percussion", tags |-> <<"vibraphone", "vibes", "jazz", "mellow", "mallet", "smooth">>, example |-> "note(\"c4 e4 g4\").s(\"gm_vibraphone\")"]>>,
     <<"gm_marimba", [description |-> "Marimba, warm wooden mallet percussion. African and Latin influences. Rich low end.", category |-> "chromatic_percussion", tags |-> <<"marimba", "mallet", "wooden", "african", "latin", "warm">>, example |-> "note(\"c4 e4 g4\").s(\"gm_marimba\")"]>>,
     <<"gm_xylophone", [description |-> "Xylophone, bright wooden mallet percussion. Crisp attack, short decay. Cartoon-like.", category |-> "chromatic_percussion", tags |-> <<"xylophone", "mallet", "wooden", "bright", "crisp", "cartoon">>, example |-> "note(\"c5 e5 g5\").s(\"gm_xylophone\")"]>>,
     <<"gm_glockenspiel", [description |-> "Glockenspiel, bright metallic bells. High-pitched, sparkling, orchestral.", category |-> "chromatic_percussion", tags |-> <<"glockenspiel", "bells", "metallic", "bright", "sparkling", "orchestral">>, example |-> "note(\"c6 e6 g6\").s(\"gm_glockenspiel\")"]>>,
     <<"gm_tubular_bells", [description |-> "Tubular bells, orchestral chimes. Majestic, ceremonial, church-like.", category |-> "chromatic_percussion", tags |-> <<"tubular-bells", "chimes", "orchestral", "majestic", "church", "ceremonial">>, example |-> "note(\"c4 e4 g4\").s(\"gm_tubular_bells\")"]>>,
     <<"gm_church_organ", [description |-> "Pipe organ, majestic church organ with full stops. Sacred, powerful, reverberant.", category |-> "organ", tags |-> <<"organ", "pipe", "church", "sacred", "majestic", "classical">>, example |-> "note(\"c3 e3 g3\").s(\"gm_church_organ\")"]>>,
     <<"gm_reed_organ", [description |-> "Reed organ, harmonium-style pump organ. Vintage, folk, Americana.", category |-> "organ", tags |-> <<"organ", "reed", "harmonium", "vintage", "folk", "americana">>, example |-> "note(\"c4 e4 g4\").s(\"gm_reed_organ\")"]>>,
     <<"gm_accordion", [description |-> "Accordion, bellows-driven free-reed instrument. French, tango, folk music.", category |-> "organ", tags |-> <<"accordion", "bellows", "french", "tango", "folk", "musette">>, example |-> "note(\"c4 e4 g4\").s(\"gm_accordion\")"]>>,
     <<"gm_harmonica", [description |-> "Harmonica, blues harp. Expressive, bending notes, folk and blues essential.", category |-> "organ", tags |-> <<"harmonica", "blues", "harp", "folk", "expressive">>, example |-> "note(\"c4 e4 g4\").s(\"gm_harmonica\")"]>>,
     <<"gm_acoustic_guitar_nylon", [description |-> "Classical nylon-string guitar. Soft, warm, fingerpicking. Spanish, classical, bossa nova.", category |-> "guitar", tags |-> <<"guitar", "acoustic", "nylon", "classical", "spanish", "bossa-nova", "fingerpicking">>, example |-> "note(\"c4 e4 g4\").s(\"gm_acoustic_guitar_nylon\")"]>>,
     <<"gm_acoustic_guitar_steel", [description |-> "Steel-string acoustic guitar. Bright, strumming, folk and country. Singer-songwriter staple.", category |-> "guitar", tags |-> <<"guitar", "acoustic", "steel", "folk", "country", "strumming", "bright">>, example |-> "note(\"c4 e4 g4\").s(\"gm_acoustic_guitar_steel\")"]>>,
     <<"gm_electric_guitar_clean", [description |-> "Clean electric guitar. Clear, bell-like, versatile. Funk, jazz, pop rhythm.", category |-> "guitar", tags |-> <<"guitar", "electric", "clean", "funk", "jazz", "pop", "rhythm">>, example |-> "note(\"c4 e4 g4\").s(\"gm_electric_guitar_clean\")"]>>,
     <<"gm_electric_guitar_jazz", [description |-> "Jazz electric guitar. Warm, hollow-body tone. Smooth jazz, bebop.", category |-> "guitar", tags |-> <<"guitar", "electric", "jazz", "warm", "hollow-body", "bebop">>, example |-> "note(\"c4 e4 g4\").s(\"gm_electric_guitar_jazz\")"]>>,
     <<"gm_electric_guitar_muted", [description |-> "Muted electric guitar. Palm-muted, chunky, rhythmic. Funk and rock rhythm.", category |-> "guitar", tags |-> <<"guitar", "electric", "muted", "palm-mute", "funk", "rock", "rhythmic">>, example |-> "note(\"c4 e4 g4\").s(\"gm_electric_guitar_muted\")"]>>,
     <<"gm_overdriven_guitar", [description |-> "Overdriven electric guitar. Crunchy, warm distortion. Classic rock, blues rock.", category |-> "guitar", tags |-> <<"guitar", "electric", "overdrive", "crunch", "rock", "blues">>, example |-> "note(\"c4 e4 g4\").s(\"gm_overdriven_guitar\")"]>>,
     <<"gm_distortion_guitar", [description |-> "Distorted electric guitar. Heavy, aggressive, saturated. Hard rock, metal.", category |-> "guitar", tags |-> <<"guitar", "electric", "distortion", "heavy", "metal", "rock", "aggressive">>, example |-> "note(\"c4 e4 g4\").s(\"gm_distortion_guitar\")"]>>,
     <<"gm_guitar_harmonics", [description |-> "Guitar harmonics. Bell-like overtones, ethereal. Ambient textures.", category |-> "guitar", tags |-> <<"guitar", "harmonics", "bell-like", "ethereal", "ambient", "overtones">>, example |-> "note(\"c5 e5 g5\").s(\"gm_guitar_harmonics\")"]>>,
     <<"gm_acoustic_bass", [description |-> "Upright acoustic bass, double bass. Jazz, orchestral, warm woody tone.", category |-> "bass", tags |-> <<"bass", "acoustic", "upright", "double-bass", "jazz", "orchestral", "woody">>, example |-> "note(\"c2 e2 g2\").s(\"gm_acoustic_bass\")"]>>,
     <<"gm_electric_bass_finger", [description |-> "Electric bass, fingerstyle. Round, warm, versatile. Most common bass sound.", category |-> "bass", tags |-> <<"bass", "electric", "finger", "warm", "round", "versatile">>, example |-> "note(\"c2 e2 g2\").s(\"gm_electric_bass_finger\")"]>>,
     <<"gm_electric_bass_pick", [description |-> "Electric bass, picked. Punchy, bright attack. Rock, punk.", category |-> "bass", tags |-> <<"bass", "electric", "pick", "punchy", "bright", "rock", "punk">>, example |-> "note(\"c2 e2 g2\").s(\"gm_electric_bass_pick\")"]>>,
     <<"gm_slap_bass_1", [description |-> "Slap bass. Funky, percussive, thumb-slap technique. Funk, disco.", category |-> "bass", tags |-> <<"bass", "slap", "funk", "percussive", "disco", "thumb">>, example |-> "note(\"c2 e2 g2\").s(\"gm_slap_bass_1\")"]>>,
     <<"gm_slap_bass_2", [description |-> "Slap bass variant. Different slap bass character, more aggressive.", category |-> "bass", tags |-> <<"bass", "slap", "funk", "aggressive">>, example |-> "note(\"c2 e2 g2\").s(\"gm_slap_bass_2\")"]>>,
     <<"gm_synth_bass_1", [description |-> "Synth bass 1. Electronic, punchy, subby. EDM, electronic, pop.", category |-> "bass", tags |-> <<"bass", "synth", "electronic", "sub", "edm", "punchy">>, example |-> "note(\"c2 e2 g2\").s(\"gm_synth_bass_1\")"]>>,
     <<"gm_synth_bass_2", [description |-> "Synth bass 2. Resonant, squelchy synth bass. Acid, electronic.", category |-> "bass", tags |-> <<"bass", "synth", "resonant", "squelchy", "acid", "electronic">>, example |-> "note(\"c2 e2 g2\").s(\"gm_synth_bass_2\")"]>>,
     <<"gm_violin", [description |-> "Solo violin. Expressive, emotional, classical. Lead melodic instrument.", category |-> "strings", tags |-> <<"violin", "strings", "orchestral", "classical", "solo", "expressive", "emotional">>, example |-> "note(\"c5 e5 g5\").s(\"gm_violin\")"]>>,
     <<"gm_viola", [description |-> "Solo viola. Warmer than violin, alto range. Rich, melancholic.", category |-> "strings", tags |-> <<"viola", "strings", "orchestral", "classical", "warm", "alto", "melancholic">>, example |-> "note(\"c4 e4 g4\").s(\"gm_viola\")"]>>,
     <<"gm_cello", [description |-> "Solo cello. Deep, rich, emotional. Tenor/bass range strings. Cinematic.", category |-> "strings", tags |-> <<"cello", "strings", "orchestral", "classical", "deep", "rich", "cinematic", "emotional">>, example |-> "note(\"c3 e3 g3\").s(\"gm_cello\")"]>>,
     <<"gm_contrabass", [description |-> "Double bass, contrabass. Deepest orchestral string. Foundation, gravitas.", category |-> "strings", tags |-> <<"contrabass", "double-bass", "strings", "orchestral", "deep", "foundation">>, example |-> "note(\"c2 e2 g2\").s(\"gm_contrabass\")"]>>,
     <<"gm_tremolo_strings", [description |-> "Tremolo strings. Rapid bowing, tension, suspense. Film scores.", category |-> "strings", tags |-> <<"strings", "tremolo", "tension", "suspense", "film", "orchestral">>, example |-> "note(\"c4 e4 g4\").s(\"gm_tremolo_strings\")"]>>,
     <<"gm_pizzicato_strings", [description |-> "Pizzicato strings. Plucked, playful, staccato. Light, whimsical.", category |-> "strings", tags |-> <<"strings", "pizzicato", "plucked", "playful", "staccato", "whimsical">>, example |-> "note(\"c4 e4 g4\").s(\"gm_pizzicato_strings\")"]>>,
     <<"gm_orchestral_harp", [description |-> "Concert harp. Ethereal, sweeping, glissando. Angelic, classical, film.", category |-> "strings", tags |-> <<"harp", "orchestral", "ethereal", "glissando", "angelic", "classical">>, example |-> "note(\"c4 e4 g4\").s(\"gm_orchestral_harp\")"]>>,
     <<"gm_string_ensemble_1", [description |-> "String ensemble, full section. Lush, cinematic, emotional pads. Film scores.", category |-> "strings", tags |-> <<"strings", "ensemble", "orchestral", "lush", "cinematic", "pads", "film">>, example |-> "note(\"<[c3,e3,g3] [f3,a3,c4]>\").s(\"gm_string_ensemble_1\")"]>>,
     <<"gm_string_ensemble_2", [description |-> "String ensemble 2. Slower attack, more atmospheric. Ambient, cinematic.", category |-> "strings", tags |-> <<"strings", "ensemble", "atmospheric", "ambient", "slow-attack">>, example |-> "note(\"<[c3,e3,g3] [f3,a3,c4]>\").s(\"gm_string_ensemble_2\")"]>>,
     <<"gm_synth_strings_1", [description |-> "Synth strings 1. Electronic string pad. 80s, synthwave, warm.", category |-> "strings", tags |-> <<"strings", "synth", "pad", "80s", "synthwave", "electronic", "warm">>, example |-> "note(\"<[c3,e3,g3] [f3,a3,c4]>\").s(\"gm_synth_strings_1\")"]>>,
     <<"gm_synth_strings_2", [description |-> "Synth strings 2. Brighter synth strings. More presence.", category |-> "strings", tags |-> <<"strings", "synth", "bright", "electronic">>, example |-> "note(\"<[c3,e3,g3] [f3,a3,c4]>\").s(\"gm_synth_strings_2\")"]>>,
     <<"gm_trumpet", [description |-> "Trumpet. Bright, powerful, cutting. Jazz, classical, fanfares, mariachi.", category |-> "brass", tags |-> <<"trumpet", "brass", "bright", "powerful", "jazz", "fanfare", "classical">>, example |-> "note(\"c5 e5 g5\").s(\"gm_trumpet\")"]>>,
     <<"gm_trombone", [description |-> "Trombone. Warm, powerful, slide. Jazz, classical, big band.", category |-> "brass", tags |-> <<"trombone", "brass", "warm", "slide", "jazz", "big-band", "classical">>, example |-> "note(\"c3 e3 g3\").s(\"gm_trombone\")"]>>,
     <<"gm_tuba", [description |-> "Tuba. Deep, powerful bass brass. Oom-pah, orchestral foundation.", category |-> "brass", tags |-> <<"tuba", "brass", "deep", "bass", "orchestral", "oom-pah">>, example |-> "note(\"c2 e2 g2\").s(\"gm_tuba\")"]>>,
     <<"gm_muted_trumpet", [description |-> "Muted trumpet. Nasal, intimate, jazz. Harmon mute, smoky clubs.", category |-> "brass", tags |-> <<"trumpet", "muted", "brass", "jazz", "intimate", "harmon", "smoky">>, example |-> "note(\"c5 e5 g5\").s(\"gm_muted_trumpet\")"]>>,
     <<"gm_french_horn", [description |-> "French horn. Noble, warm, orchestral. Romantic, cinematic, heroic.", category |-> "brass", tags |-> <<"french-horn", "brass", "noble", "warm", "orchestral", "heroic", "cinematic">>, example |-> "note(\"c4 e4 g4\").s(\"gm_french_horn\")"]>>,
     <<"gm_brass_section", [description |-> "Brass section ensemble. Powerful, big band, orchestral hits. Fanfares.", category |-> "brass", tags |-> <<"brass", "section", "ensemble", "powerful", "big-band", "fanfare", "orchestral">>, example |-> "note(\"<[c4,e4,g4] [d4,f4,a4]>\").s(\"gm_brass_section\")"]>>,
     <<"gm_synth_brass_1", [description |-> "Synth brass 1. Electronic brass stabs. 80s, disco, funk.", category |-> "brass", tags |-> <<"brass", "synth", "stabs", "80s", "disco", "funk", "electronic">>, example |-> "note(\"<[c4,e4,g4]>\").s(\"gm_synth_brass_1\")"]>>,
     <<"gm_synth_brass_2", [description |-> "Synth brass 2. Softer synth brass. Pads, atmospheric.", category |-> "brass", tags |-> <<"brass", "synth", "soft", "pads", "atmospheric">>, example |-> "note(\"<[c4,e4,g4]>\").s(\"gm_synth_brass_2\")"]>>,
     <<"gm_flute", [description |-> "Concert flute. Airy, bright, agile. Classical, jazz, folk, world.", category |-> "woodwind", tags |-> <<"flute", "woodwind", "airy", "bright", "classical", "folk">>, example |-> "note(\"c5 e5 g5\").s(\"gm_flute\")"]>>,
     <<"gm_piccolo", [description |-> "Piccolo. Highest woodwind, piercing, brilliant. Marches, orchestral.", category |-> "woodwind", tags |-> <<"piccolo", "woodwind", "high", "piercing", "brilliant", "march">>, example |-> "note(\"c6 e6 g6\").s(\"gm_piccolo\")"]>>,
     <<"gm_recorder", [description |-> "Recorder. Renaissance, folk, educational. Soft, pure tone.", category |-> "woodwind", tags |-> <<"recorder", "woodwind", "renaissance", "folk", "soft", "pure">>, example |-> "note(\"c5 e5 g5\").s(\"gm_recorder\")"]>>,
     <<"gm_pan_flute", [description |-> "Pan flute. Breathy, ethnic, Andean. Mystical, world music.", category |-> "woodwind", tags |-> <<"pan-flute", "woodwind", "breathy", "andean", "mystical", "world">>, example |-> "note(\"c5 e5 g5\").s(\"gm_pan_flute\")"]>>,
     <<"gm_blown_bottle", [description |-> "Blown bottle. Airy, hollow, ethereal. Ambient textures.", category |-> "woodwind", tags |-> <<"bottle", "blown", "airy", "hollow", "ethereal", "ambient">>, example |-> "note(\"c5 e5 g5\").s(\"gm_blown_bottle\")"]>>,
     <<"gm_shakuhachi", [description |-> "Shakuhachi. Japanese bamboo flute. Zen, meditative, breathy.", category |-> "woodwind", tags |-> <<"shakuhachi", "japanese", "bamboo", "zen", "meditative", "breathy", "world">>, example |-> "note(\"c5 e5 g5\").s(\"gm_shakuhachi\")"]>>,
     <<"gm_whistle", [description |-> "Tin whistle. Irish, Celtic, folk. Bright, agile, jigs and reels.", category |-> "woodwind", tags |-> <<"whistle", "tin-whistle", "irish", "celtic", "folk", "bright">>, example |-> "note(\"c5 e5 g5\").s(\"gm_whistle\")"]>>,
     <<"gm_ocarina", [description |-> "Ocarina. Ancient wind instrument. Pure, innocent, video game nostalgia.", category |-> "woodwind", tags |-> <<"ocarina", "ancient", "pure", "innocent", "zelda", "game">>, example |-> "note(\"c5 e5 g5\").s(\"gm_ocarina\")"]>>,
     <<"gm_clarinet", [description |-> "Clarinet. Warm, woody, agile. Jazz, classical, klezmer.", category |-> "woodwind", tags |-> <<"clarinet", "woodwind", "warm", "woody", "jazz", "classical", "klezmer">>, example |-> "note(\"c4 e4 g4\").s(\"gm_clarinet\")"]>>,
     <<"gm_oboe", [description |-> "Oboe. Nasal, expressive, penetrating. Orchestral, pastoral.", category |-> "woodwind", tags |-> <<"oboe", "woodwind", "nasal", "expressive", "orchestral", "pastoral">>, example |-> "note(\"c5 e5 g5\").s(\"gm_oboe\")"]>>,
     <<"gm_english_horn", [description |-> "English horn, cor anglais. Melancholic, warm oboe family. Romantic.", category |-> "woodwind", tags |-> <<"english-horn", "cor-anglais", "woodwind", "melancholic", "warm", "romantic">>, example |-> "note(\"c4 e4 g4\").s(\"gm_english_horn\")"]>>,
     <<"gm_bassoon", [description |-> "Bassoon. Deep, reedy, sometimes comical. Orchestral bass woodwind.", category |-> "woodwind", tags |-> <<"bassoon", "woodwind", "deep", "reedy", "orchestral", "bass">>, example |-> "note(\"c3 e3 g3\").s(\"gm_bassoon\")"]>>,
     <<"gm_soprano_sax", [description |-> "Soprano saxophone. Bright, penetrating, Kenny G. Jazz, smooth jazz.", category |-> "woodwind", tags |-> <<"saxophone", "soprano", "bright", "jazz", "smooth-jazz">>, example |-> "note(\"c5 e5 g5\").s(\"gm_soprano_sax\")"]>>,
     <<"gm_alto_sax", [description |-> "Alto saxophone. Versatile, expressive. Jazz standard, R&B, pop.", category |-> "woodwind", tags |-> <<"saxophone", "alto", "versatile", "jazz", "r&b", "pop">>, example |-> "note(\"c4 e4 g4\").s(\"gm_alto_sax\")"]>>,
     <<"gm_tenor_sax", [description |-> "Tenor saxophone. Rich, powerful, soulful. Jazz, rock, R&B solos.", category |-> "woodwind", tags |-> <<"saxophone", "tenor", "rich", "powerful", "soulful", "jazz", "rock">>, example |-> "note(\"c4 e4 g4\").s(\"gm_tenor_sax\")"]>>,
     <<"gm_baritone_sax", [description |-> "Baritone saxophone. Deep, honking, powerful. Jazz, funk, rock.", category |-> "woodwind", tags |-> <<"saxophone", "baritone", "deep", "honking", "funk", "jazz">>, example |-> "note(\"c3 e3 g3\").s(\"gm_baritone_sax\")"]>>,
     <<"gm_lead_1_square", [description |-> "Square wave lead. Retro, chiptune, 8-bit. Video game melodies.", category |-> "synth_lead", tags |-> <<"synth", "lead", "square", "chiptune", "8-bit", "retro", "game">>, example |-> "note(\"c5 e5 g5\").s(\"gm_lead_1_square\")"]>>,
     <<"gm_lead_2_sawtooth", [description |-> "Sawtooth wave lead. Bright, buzzy, classic synth. Trance, EDM.", category |-> "synth_lead", tags |-> <<"synth", "lead", "sawtooth", "bright", "buzzy", "trance", "edm">>, example |-> "note(\"c5 e5 g5\").s(\"gm_lead_2_sawtooth\")"]>>,
     <<"gm_lead_3_calliope", [description |-> "Calliope lead. Circus organ, carnival. Quirky, whimsical.", category |-> "synth_lead", tags |-> <<"synth", "lead", "calliope", "circus", "carnival", "quirky">>, example |-> "note(\"c5 e5 g5\").s(\"gm_lead_3_calliope\")"]>>,
     <<"gm_lead_4_chiff", [description |-> "Chiff lead. Breathy attack, pan flute-like. Airy, new age.", category |-> "synth_lead", tags |-> <<"synth", "lead", "chiff", "breathy", "airy", "new-age">>, example |-> "note(\"c5 e5 g5\").s(\"gm_lead_4_chiff\")"]>>,
     <<"gm_lead_5_charang", [description |-> "Charang lead. Distorted, aggressive synth. Rock, industrial.", category |-> "synth_lead", tags |-> <<"synth", "lead", "charang", "distorted", "aggressive", "rock">>, example |-> "note(\"c5 e5 g5\").s(\"gm_lead_5_charang\")"]>>,
     <<"gm_lead_6_voice", [description |-> "Voice lead synth. Vocal-like, choir synth. Ethereal, dreamy.", category |-> "synth_lead", tags |-> <<"synth", "lead", "voice", "vocal", "choir", "ethereal", "dreamy">>, example |-> "note(\"c5 e5 g5\").s(\"gm_lead_6_voice\")"]>>,
     <<"gm_lead_7_fifths", [description |-> "Fifths lead. Power chord synth, parallel fifths. Heavy, powerful.", category |-> "synth_lead", tags |-> <<"synth", "lead", "fifths", "power-chord", "heavy", "powerful">>, example |-> "note(\"c5 e5 g5\").s(\"gm_lead_7_fifths\")"]>>,
     <<"gm_lead_8_bass_lead", [description |-> "Bass and lead combo. Thick, full range synth. Monophonic bass-lead.", category |-> "synth_lead", tags |-> <<"synth", "lead", "bass", "thick", "full", "monophonic">>, example |-> "note(\"c4 e4 g4\").s(\"gm_lead_8_bass_lead\")"]>>,
     <<"gm_pad_1_new_age", [description |-> "New age pad. Warm, evolving, meditation. Ambient, relaxation.", category |-> "synth_pad", tags |-> <<"synth", "pad", "new-age", "warm", "ambient", "meditation", "relaxation">>, example |-> "note(\"<[c3,e3,g3] [f3,a3,c4]>\").s(\"gm_pad_1_new_age\")"]>>,
     <<"gm_pad_2_warm", [description |-> "Warm pad. Analog-style warmth, rich harmonics. Lush, enveloping.", category |-> "synth_pad", tags |-> <<"synth", "pad", "warm", "analog", "lush", "rich">>, example |-> "note(\"<[c3,e3,g3] [f3,a3,c4]>\").s(\"gm_pad_2_warm\")"]>>,
     <<"gm_pad_3_polysynth", [description |-> "Polysynth pad. Classic 80s pad. Synthwave, retro, detuned.", category |-> "synth_pad", tags |-> <<"synth", "pad", "polysynth", "80s", "synthwave", "retro", "detuned">>, example |-> "note(\"<[c3,e3,g3] [f3,a3,c4]>\").s(\"gm_pad_3_polysynth\")"]>>,
     <<"gm_pad_4_choir", [description |-> "Choir pad. Vocal ensemble synth. Angelic, ethereal, sacred.", category |-> "synth_pad", tags |-> <<"synth", "pad", "choir", "vocal", "angelic", "ethereal", "sacred">>, example |-> "note(\"<[c3,e3,g3] [f3,a3,c4]>\").s(\"gm_pad_4_choir\")"]>>,
     <<"gm_pad_5_bowed", [description |-> "Bowed pad. String-like attack, evolving. Cinematic, tension.", category |-> "synth_pad", tags |-> <<"synth", "pad", "bowed", "string-like", "cinematic", "tension">>, example |-> "note(\"<[c3,e3,g3] [f3,a3,c4]>\").s(\"gm_pad_5_bowed\")"]>>,
     <<"gm_pad_6_metallic", [description |-> "Metallic pad. Bell-like, shimmering. Industrial, cold, futuristic.", category |-> "synth_pad", tags |-> <<"synth", "pad", "metallic", "bell", "shimmering", "industrial", "cold">>, example |-> "note(\"<[c3,e3,g3] [f3,a3,c4]>\").s(\"gm_pad_6_metallic\")"]>>,
     <<"gm_pad_7_halo", [description |-> "Halo pad. Bright, airy, heavenly. Ambient, uplifting.", category |-> "synth_pad", tags |-> <<"synth", "pad", "halo", "bright", "airy", "heavenly", "ambient">>, example |-> "note(\"<[c3,e3,g3] [f3,a3,c4]>\").s(\"gm_pad_7_halo\")"]>>,
     <<"gm_pad_8_sweep", [description |-> "Sweep pad. Filter sweep, evolving texture. Builds, transitions.", category |-> "synth_pad", tags |-> <<"synth", "pad", "sweep", "filter", "evolving", "builds", "transitions">>, example |-> "note(\"<[c3,e3,g3] [f3,a3,c4]>\").s(\"gm_pad_8_sweep\")"]>>,
     <<"gm_fx_1_rain", [description |-> "Rain effect. Ambient rainfall texture. Weather, nature, atmosphere.", category |-> "synth_fx", tags |-> <<"synth", "fx", "rain", "ambient", "weather", "nature", "atmosphere">>, example |-> "note(\"c4\").s(\"gm_fx_1_rain\")"]>>,
     <<"gm_fx_2_soundtrack", [description |-> "Soundtrack effect. Cinematic texture, sci-fi. Film score, tension.", category |-> "synth_fx", tags |-> <<"synth", "fx", "soundtrack", "cinematic", "sci-fi", "tension">>, example |-> "note(\"c4\").s(\"gm_fx_2_soundtrack\")"]>>,
     <<"gm_fx_3_crystal", [description |-> "Crystal effect. Sparkling, magical. Fantasy, fairy tale.", category |-> "synth_fx", tags |-> <<"synth", "fx", "crystal", "sparkling", "magical", "fantasy">>, example |-> "note(\"c5\").s(\"gm_fx_3_crystal\")"]>>,
     <<"gm_fx_4_atmosphere", [description |-> "Atmosphere effect. Ambient drone, space. Sci-fi, suspense.", category |-> "synth_fx", tags |-> <<"synth", "fx", "atmosphere", "ambient", "drone", "space", "sci-fi">>, example |-> "note(\"c3\").s(\"gm_fx_4_atmosphere\")"]>>,
     <<"gm_fx_5_brightness", [description |-> "Brightness effect. Rising shimmer, uplifting. Transitions, builds.", category |-> "synth_fx", tags |-> <<"synth", "fx", "brightness", "shimmer", "uplifting", "transitions">>, example |-> "note(\"c4\").s(\"gm_fx_5_brightness\")"]>>,
     <<"gm_fx_6_goblins", [description |-> "Goblins effect. Dark, creepy texture. Horror, fantasy, tension.", category |-> "synth_fx", tags |-> <<"synth", "fx", "goblins", "dark", "creepy", "horror", "fantasy">>, example |-> "note(\"c3\").s(\"gm_fx_6_goblins\")"]>>,
     <<"gm_fx_7_echoes", [description |-> "Echoes effect. Delayed, spacious texture. Ambient, dub.", category |-> "synth_fx", tags |-> <<"synth", "fx", "echoes", "delay", "spacious", "ambient", "dub">>, example |-> "note(\"c4\").s(\"gm_fx_7_echoes\")"]>>,
     <<"gm_fx_8_scifi", [description |-> "Sci-fi effect. Futuristic, electronic texture. Space, technology.", category |-> "synth_fx", tags |-> <<"synth", "fx", "scifi", "futuristic", "electronic", "space", "technology">>, example |-> "note(\"c4\").s(\"gm_fx_8_scifi\")"]>>,
     <<"gm_sitar", [description |-> "Sitar. Indian classical string, drone strings. Raga, world, psychedelic.", category |-> "ethnic", tags |-> <<"sitar", "indian", "world", "string", "raga", "psychedelic", "drone">>, example |-> "note(\"c4 e4 g4\").s(\"gm_sitar\")"]>>,
     <<"gm_banjo", [description |-> "Banjo. Twangy, bright plucked. Bluegrass, country, folk, Americana.", category |-> "ethnic", tags |-> <<"banjo", "bluegrass", "country", "folk", "americana", "twangy", "plucked">>, example |-> "note(\"c4 e4 g4\").s(\"gm_banjo\")"]>>,
     <<"gm_shamisen", [description |-> "Shamisen. Japanese three-string lute. Traditional, folk, kabuki.", category |-> "ethnic", tags |-> <<"shamisen", "japanese", "world", "traditional", "folk", "kabuki">>, example |-> "note(\"c4 e4 g4\").s(\"gm_shamisen\")"]>>,
     <<"gm_koto", [description |-> "Koto. Japanese zither, 13 strings. Elegant, zen, traditional.", category |-> "ethnic", tags |-> <<"koto", "japanese", "world", "zither", "elegant", "zen", "traditional">>, example |-> "note(\"c4 e4 g4\").s(\"gm_koto\")"]>>,
     <<"gm_kalimba", [description |-> "Kalimba, thumb piano. African mbira. Mellow, plucky, world.", category |-> "ethnic", tags |-> <<"kalimba", "mbira", "african", "world", "thumb-piano", "mellow", "plucky">>, example |-> "note(\"c5 e5 g5\").s(\"gm_kalimba\")"]>>,
     <<"gm_bagpipe", [description |-> "Bagpipes. Scottish/Irish drone instrument. Celtic, ceremonial, powerful.", category |-> "ethnic", tags |-> <<"bagpipe", "scottish", "irish", "celtic", "drone", "ceremonial", "powerful">>, example |-> "note(\"c4 e4 g4\").s(\"gm_bagpipe\")"]>>,
     <<"gm_fiddle", [description |-> "Fiddle. Folk violin style. Celtic, bluegrass, country, energetic.", category |-> "ethnic", tags |-> <<"fiddle", "violin", "folk", "celtic", "bluegrass", "country", "energetic">>, example |-> "note(\"c5 e5 g5\").s(\"gm_fiddle\")"]>>,
     <<"gm_shanai", [description |-> "Shanai, shehnai. Indian double-reed. Weddings, celebrations, snake charmer.", category |-> "ethnic", tags |-> <<"shanai", "shehnai", "indian", "world", "double-reed", "celebration">>, example |-> "note(\"c5 e5 g5\").s(\"gm_shanai\")"]>>,
     <<"gm_timpani", [description |-> "Timpani, kettle drums. Orchestral bass drums. Dramatic, thunderous.", category |-> "percussion", tags |-> <<"timpani", "kettle-drums", "orchestral", "dramatic", "thunderous", "classical">>, example |-> "note(\"c2 g2\").s(\"gm_timpani\")"]>>,
     <<"gm_orchestra_hit", [description |-> "Orchestra hit. Full orchestra stab. 80s, dramatic, impact.", category |-> "percussion", tags |-> <<"orchestra-hit", "stab", "80s", "dramatic", "impact", "orchestral">>, example |-> "note(\"c4\").s(\"gm_orchestra_hit\")"]>>,
     <<"gm_melodic_tom", [description |-> "Melodic tom drums. Tuned toms, tribal. Tom fills, ethnic.", category |-> "percussion", tags |-> <<"tom", "melodic", "tuned", "tribal", "ethnic", "fills">>, example |-> "note(\"c3 e3 g3\").s(\"gm_melodic_tom\")"]>>,
     <<"gm_synth_drum", [description |-> "Synth drum. Electronic drum hit. 80s, electronic, processed.", category |-> "percussion", tags |-> <<"drum", "synth", "electronic", "80s", "processed">>, example |-> "note(\"c3\").s(\"gm_synth_drum\")"]>>,
     <<"gm_taiko_drum", [description |-> "Taiko drum. Japanese big drum. Powerful, ceremonial, epic.", category |-> "percussion", tags |-> <<"taiko", "japanese", "drum", "powerful", "ceremonial", "epic">>, example |-> "note(\"c2\").s(\"gm_taiko_drum\")"]>>,
     <<"gm_woodblock", [description |-> "Woodblock. Hollow wooden percussion. Latin, orchestral, click.", category |-> "percussion", tags |-> <<"woodblock", "wooden", "percussion", "latin", "orchestral", "click">>, example |-> "s(\"gm_woodblock\")"]>>,
     <<"gm_steel_drums", [description |-> "Steel drums, steel pans. Caribbean, tropical. Bright, melodic, calypso.", category |-> "percussion", tags |-> <<"steel-drums", "caribbean", "tropical", "calypso", "bright", "melodic">>, example |-> "note(\"c5 e5 g5\").s(\"gm_steel_drums\")"]>>,
     <<"gm_applause", [description |-> "Applause sound effect. Audience clapping. Endings, live feel.", category |-> "sound_fx", tags |-> <<"applause", "clapping", "audience", "sfx", "live">>, example |-> "s(\"gm_applause\")"]>>,
     <<"gm_gunshot", [description |-> "Gunshot sound effect. Explosive impact. Action, cinematic.", category |-> "sound_fx", tags |-> <<"gunshot", "explosion", "impact", "sfx", "action">>, example |-> "s(\"gm_gunshot\")"]>>,
     <<"gm_helicopter", [description |-> "Helicopter sound effect. Rotor blades, aviation. Cinematic, action.", category |-> "sound_fx", tags |-> <<"helicopter", "aviation", "sfx", "cinematic", "action">>, example |-> "s(\"gm_helicopter\")"]>>,
     <<"gm_seashore", [description |-> "Seashore sound effect. Ocean waves, beach ambience. Relaxation, nature.", category |-> "sound_fx", tags |-> <<"seashore", "ocean", "waves", "beach", "sfx", "relaxation", "nature">>, example |-> "s(\"gm_seashore\")"]>>,
     <<"gm_bird_tweet", [description |-> "Bird tweet sound effect. Birdsong, nature. Morning, forest, peaceful.", category |-> "sound_fx", tags |-> <<"bird", "tweet", "nature", "sfx", "morning", "forest", "peaceful">>, example |-> "s(\"gm_bird_tweet\")"]>>,
     <<"gm_telephone_ring", [description |-> "Telephone ring sound effect. Classic phone ring. Retro, communication.", category |-> "sound_fx", tags |-> <<"telephone", "ring", "phone", "sfx", "retro", "communication">>, example |-> "s(\"gm_telephone_ring\")"]>>,
     <<"gm_breath_noise", [description |-> "Breath noise effect. Wind, breathing sound. Ambient, human, intimate.", category |-> "sound_fx", tags |-> <<"breath", "wind", "noise", "sfx", "ambient", "human">>, example |-> "s(\"gm_breath_noise\")"]>>
  >>

dirt_samples ==
  <<
     <<"808", [description |-> "Roland TR-808 drum machine. Classic hip-hop, electronic. Full kit - kicks, snares, hats, claps.", category |-> "drum_machine", tags |-> <<"808", "roland", "drum-machine", "hip-hop", "electronic", "classic">>]>>,
     <<"808bd", [description |-> "TR-808 bass drum, kick. Deep, boomy, iconic hip-hop kick.", category |-> "drums", tags |-> <<"808", "kick", "bass-drum", "hip-hop", "deep", "boomy">>]>>,
     <<"808cy", [description |-> "TR-808 cymbal. Metallic, splashy crash.", category |-> "drums", tags |-> <<"808", "cymbal", "crash", "metallic">>]>>,
     <<"808hc", [description |-> "TR-808 high conga. Latin percussion, electronic.", category |-> "drums", tags |-> <<"808", "conga", "high", "latin", "percussion">>]>>,
     <<"808ht", [description |-> "TR-808 high tom. Pitched tom sound.", category |-> "drums", tags |-> <<"808", "tom", "high", "pitched">>]>>,
     <<"808lc", [description |-> "TR-808 low conga. Deep latin percussion.", category |-> "drums", tags |-> <<"808", "conga", "low", "latin", "deep">>]>>,
     <<"808lt", [description |-> "TR-808 low tom. Deep pitched tom.", category |-> "drums", tags |-> <<"808", "tom", "low", "deep">>]>>,
     <<"808mc", [description |-> "TR-808 mid conga. Medium latin percussion.", category |-> "drums", tags |-> <<"808", "conga", "mid", "latin">>]>>,
     <<"808mt", [description |-> "TR-808 mid tom. Medium pitched tom.", category |-> "drums", tags |-> <<"808", "tom", "mid">>]>>,
     <<"808oh", [description |-> "TR-808 open hi-hat. Sizzling, sustained hat.", category |-> "drums", tags |-> <<"808", "hi-hat", "open", "sizzle">>]>>,
     <<"808sd", [description |-> "TR-808 snare drum. Crisp, snappy electronic snare.", category |-> "drums", tags |-> <<"808", "snare", "crisp", "electronic">>]>>,
     <<"909", [description |-> "Roland TR-909 drum machine. House, techno essential. Punchy kicks, crisp hats.", category |-> "drum_machine", tags |-> <<"909", "roland", "drum-machine", "house", "techno", "punchy">>]>>,
     <<"ab", [description |-> "Abstract sounds. Experimental, textural, unusual.", category |-> "experimental", tags |-> <<"abstract", "experimental", "texture", "unusual">>]>>,
     <<"ade", [description |-> "Ade sample pack. Electronic textures.", category |-> "electronic", tags |-> <<"ade", "electronic", "texture">>]>>,
     <<"ades2", [description |-> "Ade sample pack 2. More electronic sounds.", category |-> "electronic", tags |-> <<"ade", "electronic", "variant">>]>>,
     <<"ades3", [description |-> "Ade sample pack 3. Electronic continuation.", category |-> "electronic", tags |-> <<"ade", "electronic", "variant">>]>>,
     <<"ades4", [description |-> "Ade sample pack 4. Electronic sounds.", category |-> "electronic", tags |-> <<"ade", "electronic", "variant">>]>>,
     <<"alex", [description |-> "Alex sample collection. Various sounds.", category |-> "misc", tags |-> <<"alex", "collection", "various">>]>>,
     <<"alphabet", [description |-> "Alphabet spoken letters. A to Z voice samples.", category |-> "vocal", tags |-> <<"alphabet", "letters", "voice", "speech", "educational">>]>>,
     <<"amencutup", [description |-> "Amen break chopped. Classic breakbeat sliced. Jungle, drum and bass.", category |-> "breaks", tags |-> <<"amen", "breakbeat", "chopped", "jungle", "dnb", "classic">>]>>,
     <<"armora", [description |-> "Armora sounds. Metallic, armored textures.", category |-> "experimental", tags |-> <<"armora", "metallic", "texture">>]>>,
     <<"arp", [description |-> "Arpeggio sounds. Sequenced melodic patterns.", category |-> "melodic", tags |-> <<"arpeggio", "sequence", "melodic", "pattern">>]>>,
     <<"arpy", [description |-> "Arpy synth. Short plucky synth for arpeggios. Electronic, chiptune-ish.", category |-> "melodic", tags |-> <<"arpeggio", "synth", "plucky", "electronic">>]>>,
     <<"auto", [description |-> "Auto sounds. Automotive, mechanical.", category |-> "sfx", tags |-> <<"auto", "car", "mechanical", "engine">>]>>,
     <<"baa", [description |-> "Baa sheep sound. Animal bleat.", category |-> "sfx", tags |-> <<"sheep", "animal", "bleat", "farm">>]>>,
     <<"baa2", [description |-> "Baa sheep variant. Different sheep sounds.", category |-> "sfx", tags |-> <<"sheep", "animal", "bleat", "variant">>]>>,
     <<"bass", [description |-> "Bass samples. General bass sounds. Low frequency foundation.", category |-> "bass", tags |-> <<"bass", "low", "foundation">>]>>,
     <<"bass0", [description |-> "Bass variant 0. Alternative bass character.", category |-> "bass", tags |-> <<"bass", "variant", "low">>]>>,
     <<"bass1", [description |-> "Bass variant 1. Different bass timbre.", category |-> "bass", tags |-> <<"bass", "variant", "low">>]>>,
     <<"bass2", [description |-> "Bass variant 2. Another bass flavor.", category |-> "bass", tags |-> <<"bass", "variant", "low">>]>>,
     <<"bass3", [description |-> "Bass variant 3. Extended bass options.", category |-> "bass", tags |-> <<"bass", "variant", "low">>]>>,
     <<"bassdm", [description |-> "Bass drum samples. Kick drums, low percussion.", category |-> "drums", tags |-> <<"bass", "drum", "kick", "low">>]>>,
     <<"bassfoo", [description |-> "Bass foo experimental. Unusual bass sounds.", category |-> "bass", tags |-> <<"bass", "experimental", "unusual">>]>>,
     <<"battles", [description |-> "Battle sounds. Combat, action, warfare.", category |-> "sfx", tags |-> <<"battle", "combat", "action", "warfare">>]>>,
     <<"bd", [description |-> "Bass drum, kick drum. Electronic and acoustic kicks. Foundation of rhythm.", category |-> "drums", tags |-> <<"kick", "bass-drum", "drums", "rhythm", "foundation">>]>>,
     <<"bend", [description |-> "Bend sounds. Pitch bending, gliding tones.", category |-> "melodic", tags |-> <<"bend", "pitch", "glide", "tone">>]>>,
     <<"bev", [description |-> "Bev sample collection. Various sounds.", category |-> "misc", tags |-> <<"bev", "collection", "various">>]>>,
     <<"bin", [description |-> "Binary sounds. Digital, computer-like.", category |-> "electronic", tags |-> <<"binary", "digital", "computer", "data">>]>>,
     <<"birds", [description |-> "Bird sounds. Birdsong, nature, chirping.", category |-> "sfx", tags |-> <<"birds", "nature", "chirp", "wildlife">>]>>,
     <<"birds3", [description |-> "Birds variant 3. More bird sounds.", category |-> "sfx", tags |-> <<"birds", "nature", "chirp", "variant">>]>>,
     <<"bleep", [description |-> "Bleep sounds. Electronic beeps, UI sounds.", category |-> "electronic", tags |-> <<"bleep", "beep", "electronic", "ui">>]>>,
     <<"blip", [description |-> "Blip sounds. Short electronic beep. Glitch, UI, accent.", category |-> "electronic", tags |-> <<"blip", "beep", "electronic", "glitch", "ui">>]>>,
     <<"blue", [description |-> "Blue sample collection. Various sounds.", category |-> "misc", tags |-> <<"blue", "collection", "various">>]>>,
     <<"bottle", [description |-> "Bottle sounds. Glass, blown bottle, percussion.", category |-> "percussion", tags |-> <<"bottle", "glass", "blown", "percussion">>]>>,
     <<"breaks125", [description |-> "Breakbeat loops at 125 BPM. House tempo breaks.", category |-> "breaks", tags |-> <<"breakbeat", "125bpm", "house", "loop">>]>>,
     <<"breaks152", [description |-> "Breakbeat loops at 152 BPM. DnB tempo breaks.", category |-> "breaks", tags |-> <<"breakbeat", "152bpm", "dnb", "loop">>]>>,
     <<"breaks157", [description |-> "Breakbeat loops at 157 BPM. Fast breaks.", category |-> "breaks", tags |-> <<"breakbeat", "157bpm", "fast", "loop">>]>>,
     <<"breaks165", [description |-> "Breakbeat loops at 165 BPM. Jungle tempo.", category |-> "breaks", tags |-> <<"breakbeat", "165bpm", "jungle", "loop">>]>>,
     <<"breath", [description |-> "Breath sounds. Human breathing, wind.", category |-> "sfx", tags |-> <<"breath", "human", "wind", "air">>]>>,
     <<"bubble", [description |-> "Bubble sounds. Water bubbles, underwater.", category |-> "sfx", tags |-> <<"bubble", "water", "underwater", "liquid">>]>>,
     <<"can", [description |-> "Can sounds. Metal can, percussion.", category |-> "percussion", tags |-> <<"can", "metal", "percussion", "found-sound">>]>>,
     <<"casio", [description |-> "Casio keyboard. Lo-fi keys, toy keyboard character. Nostalgic, lo-fi.", category |-> "melodic", tags |-> <<"casio", "keyboard", "lo-fi", "toy", "nostalgic">>]>>,
     <<"cb", [description |-> "Cowbell. Metallic percussion. Funk, latin, electronic classic.", category |-> "drums", tags |-> <<"cowbell", "percussion", "metallic", "funk", "latin">>]>>,
     <<"cc", [description |-> "CC samples. Various control sounds.", category |-> "misc", tags |-> <<"cc", "control", "various">>]>>,
     <<"chin", [description |-> "China cymbal or chin sounds. Trashy cymbal.", category |-> "drums", tags |-> <<"china", "cymbal", "trashy", "crash">>]>>,
     <<"circus", [description |-> "Circus sounds. Carnival, whimsical, fun.", category |-> "sfx", tags |-> <<"circus", "carnival", "whimsical", "fun">>]>>,
     <<"clak", [description |-> "Clak percussion. Click, clack sounds.", category |-> "percussion", tags |-> <<"clak", "click", "clack", "percussion">>]>>,
     <<"click", [description |-> "Click sounds. Digital clicks, percussion.", category |-> "percussion", tags |-> <<"click", "digital", "percussion", "ui">>]>>,
     <<"clubkick", [description |-> "Club kick drums. Big room, EDM kicks.", category |-> "drums", tags |-> <<"kick", "club", "edm", "big-room">>]>>,
     <<"co", [description |-> "Co sample collection. Various sounds.", category |-> "misc", tags |-> <<"co", "collection", "various">>]>>,
     <<"coins", [description |-> "Coin sounds. Money, jingling, arcade.", category |-> "sfx", tags |-> <<"coins", "money", "jingle", "arcade">>]>>,
     <<"control", [description |-> "Control sounds. Buttons, switches, UI.", category |-> "sfx", tags |-> <<"control", "button", "switch", "ui">>]>>,
     <<"cosmicg", [description |-> "Cosmic G sounds. Space, sci-fi textures.", category |-> "electronic", tags |-> <<"cosmic", "space", "sci-fi", "texture">>]>>,
     <<"cp", [description |-> "Clap, hand clap. Snappy, layered clap sound. Electronic music staple.", category |-> "drums", tags |-> <<"clap", "handclap", "drums", "snappy">>]>>,
     <<"cr", [description |-> "Crash cymbal. Explosive cymbal hit. Accents, transitions.", category |-> "drums", tags |-> <<"crash", "cymbal", "drums", "accent", "transition">>]>>,
     <<"crow", [description |-> "Crow sounds. Bird caw, nature.", category |-> "sfx", tags |-> <<"crow", "bird", "caw", "nature">>]>>,
     <<"d", [description |-> "D sample collection. Various drum sounds.", category |-> "drums", tags |-> <<"d", "drums", "collection">>]>>,
     <<"db", [description |-> "DB samples. Database or deep bass.", category |-> "bass", tags |-> <<"db", "deep", "bass">>]>>,
     <<"diphone", [description |-> "Diphone speech synthesis. Robotic voice.", category |-> "vocal", tags |-> <<"diphone", "speech", "synthesis", "robotic">>]>>,
     <<"diphone2", [description |-> "Diphone variant 2. More speech synthesis.", category |-> "vocal", tags |-> <<"diphone", "speech", "synthesis", "variant">>]>>,
     <<"dist", [description |-> "Distorted sounds. Heavy distortion, aggressive.", category |-> "electronic", tags |-> <<"distortion", "heavy", "aggressive", "noise">>]>>,
     <<"dork2", [description |-> "Dork sounds 2. Quirky, unusual.", category |-> "experimental", tags |-> <<"dork", "quirky", "unusual", "fun">>]>>,
     <<"dorkbot", [description |-> "Dorkbot sounds. Electronic, robotic.", category |-> "electronic", tags |-> <<"dorkbot", "electronic", "robotic">>]>>,
     <<"dr", [description |-> "DR drum samples. Various drums.", category |-> "drums", tags |-> <<"dr", "drums", "various">>]>>,
     <<"dr2", [description |-> "DR drums variant 2.", category |-> "drums", tags |-> <<"dr", "drums", "variant">>]>>,
     <<"dr55", [description |-> "DR-55 drum machine. Boss Doctor Rhythm.", category |-> "drum_machine", tags |-> <<"dr55", "boss", "drum-machine", "vintage">>]>>,
     <<"dr_few", [description |-> "DR few selected drums.", category |-> "drums", tags |-> <<"dr", "drums", "selected">>]>>,
     <<"drum", [description |-> "General drum samples. Various drum hits.", category |-> "drums", tags |-> <<"drum", "hits", "various">>]>>,
     <<"drumtraks", [description |-> "Sequential DrumTraks samples. Vintage drum machine.", category |-> "drum_machine", tags |-> <<"drumtraks", "sequential", "drum-machine", "vintage">>]>>,
     <<"e", [description |-> "E sample collection. Electronic sounds.", category |-> "electronic", tags |-> <<"e", "electronic", "collection">>]>>,
     <<"east", [description |-> "East sounds. Eastern, Asian influenced.", category |-> "world", tags |-> <<"east", "asian", "eastern", "world">>]>>,
     <<"electro1", [description |-> "Electro sounds 1. Electronic, 80s electro.", category |-> "electronic", tags |-> <<"electro", "80s", "electronic", "breakdance">>]>>,
     <<"em2", [description |-> "EM2 samples. Electronic music.", category |-> "electronic", tags |-> <<"em2", "electronic", "music">>]>>,
     <<"erk", [description |-> "Erk sounds. Unusual, experimental.", category |-> "experimental", tags |-> <<"erk", "unusual", "experimental">>]>>,
     <<"f", [description |-> "F sample collection. Various sounds.", category |-> "misc", tags |-> <<"f", "collection", "various">>]>>,
     <<"feel", [description |-> "Feel samples. Textural, emotional.", category |-> "experimental", tags |-> <<"feel", "texture", "emotional">>]>>,
     <<"feelfx", [description |-> "Feel effects. Atmospheric, textural FX.", category |-> "sfx", tags |-> <<"feel", "fx", "atmospheric", "texture">>]>>,
     <<"fest", [description |-> "Festival sounds. Crowd, celebration.", category |-> "sfx", tags |-> <<"festival", "crowd", "celebration">>]>>,
     <<"fire", [description |-> "Fire sounds. Flames, crackling.", category |-> "sfx", tags |-> <<"fire", "flames", "crackling", "nature">>]>>,
     <<"flick", [description |-> "Flick sounds. Quick, snappy.", category |-> "percussion", tags |-> <<"flick", "quick", "snappy">>]>>,
     <<"fm", [description |-> "FM synthesis sounds. Digital, bell-like, metallic.", category |-> "melodic", tags |-> <<"fm", "synthesis", "digital", "bell", "metallic">>]>>,
     <<"foo", [description |-> "Foo samples. Various experimental sounds.", category |-> "experimental", tags |-> <<"foo", "experimental", "various">>]>>,
     <<"future", [description |-> "Future sounds. Futuristic, sci-fi.", category |-> "electronic", tags |-> <<"future", "futuristic", "sci-fi">>]>>,
     <<"gab", [description |-> "Gabber sounds. Hardcore, distorted.", category |-> "electronic", tags |-> <<"gabber", "hardcore", "distorted", "fast">>]>>,
     <<"gabba", [description |-> "Gabba kicks. Hardcore techno kicks.", category |-> "drums", tags |-> <<"gabba", "hardcore", "kick", "distorted">>]>>,
     <<"gabbaloud", [description |-> "Gabba loud. Louder hardcore kicks.", category |-> "drums", tags |-> <<"gabba", "hardcore", "loud", "kick">>]>>,
     <<"gabbalouder", [description |-> "Gabba even louder. Maximum hardcore.", category |-> "drums", tags |-> <<"gabba", "hardcore", "loudest", "extreme">>]>>,
     <<"glasstap", [description |-> "Glass tap sounds. Delicate, percussive.", category |-> "percussion", tags |-> <<"glass", "tap", "delicate", "percussion">>]>>,
     <<"glitch", [description |-> "Glitch sounds. Digital artifacts, errors. Experimental, IDM.", category |-> "electronic", tags |-> <<"glitch", "digital", "error", "idm", "experimental">>]>>,
     <<"glitch2", [description |-> "Glitch variant 2. More digital artifacts.", category |-> "electronic", tags |-> <<"glitch", "digital", "variant">>]>>,
     <<"gretsch", [description |-> "Gretsch drum kit. Acoustic drum samples.", category |-> "drums", tags |-> <<"gretsch", "acoustic", "drum-kit">>]>>,
     <<"gtr", [description |-> "Electric guitar samples. Short stabs, limited. Guitar character.", category |-> "guitar", tags |-> <<"guitar", "electric", "stabs">>]>>,
     <<"h", [description |-> "H sample collection. Various sounds.", category |-> "misc", tags |-> <<"h", "collection", "various">>]>>,
     <<"hand", [description |-> "Hand sounds. Claps, snaps, body percussion.", category |-> "percussion", tags |-> <<"hand", "clap", "snap", "body-percussion">>]>>,
     <<"hardcore", [description |-> "Hardcore sounds. Intense, aggressive.", category |-> "electronic", tags |-> <<"hardcore", "intense", "aggressive">>]>>,
     <<"hardkick", [description |-> "Hard kick drums. Punchy, powerful kicks.", category |-> "drums", tags |-> <<"kick", "hard", "punchy", "powerful">>]>>,
     <<"haw", [description |-> "Haw sounds. Various samples.", category |-> "misc", tags |-> <<"haw", "various">>]>>,
     <<"hc", [description |-> "Hardcore sounds or high conga.", category |-> "drums", tags |-> <<"hc", "hardcore", "conga">>]>>,
     <<"hh", [description |-> "Hi-hat, closed hi-hat. Tight, crisp high-frequency rhythm.", category |-> "drums", tags |-> <<"hi-hat", "hihat", "drums", "crisp">>]>>,
     <<"hh27", [description |-> "Hi-hat collection 27. Multiple hi-hat sounds.", category |-> "drums", tags |-> <<"hi-hat", "collection", "variety">>]>>,
     <<"hit", [description |-> "Hit sounds. Impact, stabs.", category |-> "sfx", tags |-> <<"hit", "impact", "stab">>]>>,
     <<"hmm", [description |-> "Hmm vocal sounds. Thinking, contemplation.", category |-> "vocal", tags |-> <<"hmm", "vocal", "thinking">>]>>,
     <<"ho", [description |-> "Ho sounds. Vocal exclamations.", category |-> "vocal", tags |-> <<"ho", "vocal", "exclamation">>]>>,
     <<"hoover", [description |-> "Hoover bass. Classic rave sound, mentasm.", category |-> "bass", tags |-> <<"hoover", "rave", "mentasm", "bass">>]>>,
     <<"house", [description |-> "House music samples. 4/4 beats, grooves.", category |-> "electronic", tags |-> <<"house", "4/4", "groove", "electronic">>]>>,
     <<"ht", [description |-> "High tom drum. High pitched tom. Fills, rolls.", category |-> "drums", tags |-> <<"tom", "high", "fills">>]>>,
     <<"if", [description |-> "IF samples. Conditional, experimental.", category |-> "experimental", tags |-> <<"if", "experimental">>]>>,
     <<"ifdrums", [description |-> "IF drums. Experimental drum sounds.", category |-> "drums", tags |-> <<"if", "drums", "experimental">>]>>,
     <<"incoming", [description |-> "Incoming sounds. Approaching, building.", category |-> "sfx", tags |-> <<"incoming", "approach", "build">>]>>,
     <<"industrial", [description |-> "Industrial sounds. Factory, mechanical, harsh.", category |-> "electronic", tags |-> <<"industrial", "factory", "mechanical", "harsh">>]>>,
     <<"insect", [description |-> "Insect sounds. Bugs, buzzing, nature.", category |-> "sfx", tags |-> <<"insect", "bugs", "buzzing", "nature">>]>>,
     <<"invaders", [description |-> "Space invaders sounds. Retro arcade, 8-bit.", category |-> "electronic", tags |-> <<"invaders", "arcade", "8-bit", "retro", "game">>]>>,
     <<"jazz", [description |-> "Jazz samples. Jazz drum kit, brushes.", category |-> "drums", tags |-> <<"jazz", "brushes", "acoustic", "swing">>]>>,
     <<"jungbass", [description |-> "Jungle bass. Sub-heavy bass for drum and bass, jungle. Deep, rolling.", category |-> "bass", tags |-> <<"jungle", "bass", "dnb", "sub", "deep">>]>>,
     <<"jungle", [description |-> "Jungle samples. Breakbeat, DnB drums.", category |-> "breaks", tags |-> <<"jungle", "breakbeat", "dnb", "drums">>]>>,
     <<"juno", [description |-> "Juno synth. Roland Juno character. Warm, analog, classic.", category |-> "melodic", tags |-> <<"juno", "roland", "synth", "analog", "warm">>]>>,
     <<"jvbass", [description |-> "JV bass. Roland JV synth bass. Punchy, electronic.", category |-> "bass", tags |-> <<"jv", "roland", "bass", "synth", "punchy">>]>>,
     <<"kicklinn", [description |-> "Linn kick drums. LinnDrum kicks.", category |-> "drums", tags |-> <<"linn", "kick", "drum-machine", "80s">>]>>,
     <<"koy", [description |-> "Koy samples. Various sounds.", category |-> "misc", tags |-> <<"koy", "various">>]>>,
     <<"kurt", [description |-> "Kurt samples. Various sounds.", category |-> "misc", tags |-> <<"kurt", "various">>]>>,
     <<"latibro", [description |-> "Latin brother samples. Latin percussion.", category |-> "percussion", tags |-> <<"latin", "percussion", "brother">>]>>,
     <<"led", [description |-> "LED sounds. Electronic, digital.", category |-> "electronic", tags |-> <<"led", "electronic", "digital">>]>>,
     <<"less", [description |-> "Less samples. Minimal sounds.", category |-> "minimal", tags |-> <<"less", "minimal">>]>>,
     <<"lighter", [description |-> "Lighter sounds. Click, flame.", category |-> "sfx", tags |-> <<"lighter", "click", "flame">>]>>,
     <<"linnhats", [description |-> "LinnDrum hi-hats. Classic 80s hats.", category |-> "drums", tags |-> <<"linn", "hi-hat", "80s", "drum-machine">>]>>,
     <<"lt", [description |-> "Low tom drum. Deep tom hit. Fills, tribal, floor tom.", category |-> "drums", tags |-> <<"tom", "low", "deep", "tribal">>]>>,
     <<"made", [description |-> "Made samples. Various processed sounds.", category |-> "misc", tags |-> <<"made", "processed", "various">>]>>,
     <<"made2", [description |-> "Made samples variant 2.", category |-> "misc", tags |-> <<"made", "variant">>]>>,
     <<"mash", [description |-> "Mash samples. Mashup, mixed sounds.", category |-> "electronic", tags |-> <<"mash", "mashup", "mixed">>]>>,
     <<"mash2", [description |-> "Mash samples variant 2.", category |-> "electronic", tags |-> <<"mash", "variant">>]>>,
     <<"metal", [description |-> "Metal sounds. Heavy, metallic, industrial.", category |-> "electronic", tags |-> <<"metal", "heavy", "metallic", "industrial">>]>>,
     <<"miniyeah", [description |-> "Mini yeah vocal. Short vocal sample.", category |-> "vocal", tags |-> <<"yeah", "vocal", "short">>]>>,
     <<"monsterb", [description |-> "Monster bass. Heavy, aggressive bass.", category |-> "bass", tags |-> <<"monster", "bass", "heavy", "aggressive">>]>>,
     <<"moog", [description |-> "Moog synth. Moog synthesizer sounds. Fat, analog, bass-capable.", category |-> "melodic", tags |-> <<"moog", "synth", "analog", "fat">>]>>,
     <<"mouth", [description |-> "Mouth sounds. Human mouth percussion. Beatbox-like.", category |-> "vocal", tags |-> <<"mouth", "beatbox", "percussion", "human">>]>>,
     <<"mp3", [description |-> "MP3 artifacts. Compressed audio sounds.", category |-> "electronic", tags |-> <<"mp3", "compressed", "artifact", "digital">>]>>,
     <<"msg", [description |-> "Message sounds. Communication, notification.", category |-> "sfx", tags |-> <<"message", "notification", "communication">>]>>,
     <<"mt", [description |-> "Mid tom drum. Medium pitched tom. Fills.", category |-> "drums", tags |-> <<"tom", "mid", "fills">>]>>,
     <<"mute", [description |-> "Muted sounds. Dampened, quiet.", category |-> "misc", tags |-> <<"mute", "dampened", "quiet">>]>>,
     <<"newnotes", [description |-> "New notes. Fresh melodic content.", category |-> "melodic", tags |-> <<"notes", "melodic", "new">>]>>,
     <<"noise", [description |-> "Noise samples. White noise, static. Texture, fills, risers.", category |-> "electronic", tags |-> <<"noise", "white-noise", "static", "texture">>]>>,
     <<"noise2", [description |-> "Noise variant 2. More noise textures.", category |-> "electronic", tags |-> <<"noise", "variant", "texture">>]>>,
     <<"notes", [description |-> "Notes samples. Melodic sounds.", category |-> "melodic", tags |-> <<"notes", "melodic">>]>>,
     <<"num", [description |-> "Number sounds. Numeric, counting audio.", category |-> "vocal", tags |-> <<"num", "number", "count", "digits">>]>>,
     <<"numbers", [description |-> "Number spoken samples. Count, digits.", category |-> "vocal", tags |-> <<"numbers", "count", "digits", "speech">>]>>,
     <<"oc", [description |-> "OC samples. Various sounds.", category |-> "misc", tags |-> <<"oc", "various">>]>>,
     <<"odx", [description |-> "ODX samples. Electronic sounds.", category |-> "electronic", tags |-> <<"odx", "electronic">>]>>,
     <<"off", [description |-> "Off sounds. Switch off, ending.", category |-> "sfx", tags |-> <<"off", "switch", "ending">>]>>,
     <<"outdoor", [description |-> "Outdoor sounds. Nature, ambient.", category |-> "sfx", tags |-> <<"outdoor", "nature", "ambient">>]>>,
     <<"pad", [description |-> "Synth pad. Sustained atmospheric sound. Chords, ambient, background.", category |-> "pads", tags |-> <<"pad", "synth", "ambient", "atmospheric">>]>>,
     <<"padlong", [description |-> "Long pad. Extended sustain pad. Drones, ambient, evolving.", category |-> "pads", tags |-> <<"pad", "long", "drone", "ambient">>]>>,
     <<"pebbles", [description |-> "Pebble sounds. Stones, gravel.", category |-> "sfx", tags |-> <<"pebbles", "stones", "gravel">>]>>,
     <<"perc", [description |-> "General percussion. Various percussion hits. Fills, accents.", category |-> "percussion", tags |-> <<"percussion", "hits", "fills">>]>>,
     <<"peri", [description |-> "Peri samples. Peripheral sounds.", category |-> "misc", tags |-> <<"peri", "peripheral">>]>>,
     <<"pluck", [description |-> "Plucked string. Generic pluck sound. Melodic, pizzicato-like.", category |-> "melodic", tags |-> <<"pluck", "string", "melodic">>]>>,
     <<"popkick", [description |-> "Pop kick drums. Modern pop kicks.", category |-> "drums", tags |-> <<"kick", "pop", "modern">>]>>,
     <<"print", [description |-> "Print sounds. Printer, mechanical.", category |-> "sfx", tags |-> <<"print", "printer", "mechanical">>]>>,
     <<"proc", [description |-> "Processed sounds. Manipulated audio.", category |-> "electronic", tags |-> <<"processed", "manipulated">>]>>,
     <<"procshort", [description |-> "Short processed sounds.", category |-> "electronic", tags |-> <<"processed", "short">>]>>,
     <<"psr", [description |-> "PSR keyboard sounds. Yamaha PSR.", category |-> "melodic", tags |-> <<"psr", "yamaha", "keyboard">>]>>,
     <<"rave", [description |-> "Rave sounds. 90s rave, stabs, hits.", category |-> "electronic", tags |-> <<"rave", "90s", "stabs", "rave-culture">>]>>,
     <<"rave2", [description |-> "Rave sounds variant 2. More rave content.", category |-> "electronic", tags |-> <<"rave", "variant">>]>>,
     <<"ravemono", [description |-> "Rave mono sounds. Monophonic rave.", category |-> "electronic", tags |-> <<"rave", "mono">>]>>,
     <<"realclaps", [description |-> "Real claps. Acoustic hand claps.", category |-> "drums", tags |-> <<"clap", "real", "acoustic">>]>>,
     <<"reverbkick", [description |-> "Reverb kick. Kicks with reverb tail.", category |-> "drums", tags |-> <<"kick", "reverb", "tail">>]>>,
     <<"rm", [description |-> "RM samples. Ring modulation sounds.", category |-> "electronic", tags |-> <<"rm", "ring-modulation">>]>>,
     <<"rs", [description |-> "Rimshot samples. Sharp rim hits.", category |-> "drums", tags |-> <<"rimshot", "rim", "sharp">>]>>,
     <<"sax", [description |-> "Saxophone samples. Jazz, R&B sax.", category |-> "melodic", tags |-> <<"saxophone", "sax", "jazz", "r&b">>]>>,
     <<"sd", [description |-> "Snare drum. Sharp, cracking backbeat. Essential drum sound.", category |-> "drums", tags |-> <<"snare", "drums", "backbeat">>]>>,
     <<"seawolf", [description |-> "Sea wolf sounds. Ocean, nautical.", category |-> "sfx", tags |-> <<"sea", "wolf", "ocean", "nautical">>]>>,
     <<"sequential", [description |-> "Sequential sounds. Ordered, sequenced.", category |-> "electronic", tags |-> <<"sequential", "ordered", "sequence">>]>>,
     <<"sf", [description |-> "SF sounds. Science fiction.", category |-> "sfx", tags |-> <<"sf", "sci-fi", "science-fiction">>]>>,
     <<"sheffield", [description |-> "Sheffield sounds. UK electronic.", category |-> "electronic", tags |-> <<"sheffield", "uk", "electronic">>]>>,
     <<"short", [description |-> "Short sounds. Brief, staccato.", category |-> "misc", tags |-> <<"short", "brief", "staccato">>]>>,
     <<"sid", [description |-> "SID chip sounds. C64, 8-bit.", category |-> "electronic", tags |-> <<"sid", "c64", "8-bit", "chiptune">>]>>,
     <<"simplesine", [description |-> "Simple sine wave. Pure, clean sine tone. Fundamental, sub bass, test tone.", category |-> "melodic", tags |-> <<"sine", "simple", "pure", "test-tone", "sub">>]>>,
     <<"sine", [description |-> "Sine wave samples. Pure tone.", category |-> "melodic", tags |-> <<"sine", "pure", "tone">>]>>,
     <<"sitar", [description |-> "Sitar samples. Indian string instrument. World, psychedelic.", category |-> "world", tags |-> <<"sitar", "indian", "world">>]>>,
     <<"sn", [description |-> "Snare drum alternate. Different snare character.", category |-> "drums", tags |-> <<"snare", "alternate">>]>>,
     <<"space", [description |-> "Space sounds. Cosmic, sci-fi.", category |-> "sfx", tags |-> <<"space", "cosmic", "sci-fi">>]>>,
     <<"speakspell", [description |-> "Speak and spell sounds. Retro toy.", category |-> "vocal", tags |-> <<"speak-spell", "retro", "toy">>]>>,
     <<"speech", [description |-> "Speech samples. Spoken word.", category |-> "vocal", tags |-> <<"speech", "spoken", "word">>]>>,
     <<"speechless", [description |-> "Speechless sounds. Non-verbal.", category |-> "vocal", tags |-> <<"speechless", "non-verbal">>]>>,
     <<"speedupdown", [description |-> "Speed up/down sounds. Tempo effects.", category |-> "sfx", tags |-> <<"speed", "tempo", "effect">>]>>,
     <<"stab", [description |-> "Synth stab. Short chord hit. House, disco, rhythmic chords.", category |-> "melodic", tags |-> <<"stab", "chord", "house">>]>>,
     <<"stomp", [description |-> "Stomp sounds. Foot stomps, body percussion.", category |-> "percussion", tags |-> <<"stomp", "foot", "body-percussion">>]>>,
     <<"subroc3d", [description |-> "Sub Roc 3D game sounds. Retro arcade.", category |-> "electronic", tags |-> <<"subroc", "arcade", "retro", "game">>]>>,
     <<"sugar", [description |-> "Sugar samples. Sweet, pleasant sounds.", category |-> "misc", tags |-> <<"sugar", "sweet", "pleasant">>]>>,
     <<"sundance", [description |-> "Sundance samples. Festival, outdoor.", category |-> "misc", tags |-> <<"sundance", "festival">>]>>,
     <<"tabla", [description |-> "Tabla drums. Indian classical percussion. Intricate, melodic drums.", category |-> "world", tags |-> <<"tabla", "indian", "percussion">>]>>,
     <<"tabla2", [description |-> "Tabla drums variant. More tabla sounds.", category |-> "world", tags |-> <<"tabla", "indian", "variant">>]>>,
     <<"tablex", [description |-> "Tabla extended. More tabla samples.", category |-> "world", tags |-> <<"tabla", "extended">>]>>,
     <<"tacscan", [description |-> "Tac Scan game sounds. Retro arcade.", category |-> "electronic", tags |-> <<"tacscan", "arcade", "retro">>]>>,
     <<"tech", [description |-> "Tech sounds. Technical, electronic.", category |-> "electronic", tags |-> <<"tech", "technical", "electronic">>]>>,
     <<"techno", [description |-> "Techno samples. Techno drums, sounds.", category |-> "electronic", tags |-> <<"techno", "drums", "electronic">>]>>,
     <<"tink", [description |-> "Tink sounds. Small metallic hits.", category |-> "percussion", tags |-> <<"tink", "metallic", "small">>]>>,
     <<"tok", [description |-> "Tok sounds. Click, tock.", category |-> "percussion", tags |-> <<"tok", "click", "tock">>]>>,
     <<"toys", [description |-> "Toy sounds. Playful, childlike.", category |-> "sfx", tags |-> <<"toys", "playful", "childlike">>]>>,
     <<"trump", [description |-> "Trump sounds. Trumpet-like.", category |-> "melodic", tags |-> <<"trump", "trumpet-like">>]>>,
     <<"ul", [description |-> "UL samples. Various sounds.", category |-> "misc", tags |-> <<"ul", "various">>]>>,
     <<"ulgab", [description |-> "UL gabber sounds. Hardcore.", category |-> "electronic", tags |-> <<"ul", "gabber", "hardcore">>]>>,
     <<"uxay", [description |-> "Uxay samples. Experimental.", category |-> "experimental", tags |-> <<"uxay", "experimental">>]>>,
     <<"v", [description |-> "V sample collection. Various sounds.", category |-> "misc", tags |-> <<"v", "collection">>]>>,
     <<"voodoo", [description |-> "Voodoo sounds. Dark, mystical.", category |-> "sfx", tags |-> <<"voodoo", "dark", "mystical">>]>>,
     <<"wind", [description |-> "Wind sounds. Atmospheric, nature.", category |-> "sfx", tags |-> <<"wind", "atmospheric", "nature">>]>>,
     <<"wobble", [description |-> "Wobble bass. Dubstep wobble sound.", category |-> "bass", tags |-> <<"wobble", "dubstep", "bass">>]>>,
     <<"world", [description |-> "World music samples. Global, ethnic.", category |-> "world", tags |-> <<"world", "global", "ethnic">>]>>,
     <<"xmas", [description |-> "Christmas sounds. Holiday, festive.", category |-> "sfx", tags |-> <<"christmas", "holiday", "festive">>]>>,
     <<"yeah", [description |-> "Yeah vocal samples. Exclamation, hype.", category |-> "vocal", tags |-> <<"yeah", "vocal", "exclamation", "hype">>]>>
  >>

builtin_synths ==
  <<
     <<"sine", [description |-> "Sine wave oscillator. Pure, smooth, fundamental tone. Sub bass, pure tones, gentle.", category |-> "oscillator", tags |-> <<"sine", "oscillator", "pure", "smooth", "sub", "gentle", "fundamental">>, example |-> "note(\"c4 e4 g4\").s(\"sine\")"]>>,
     <<"saw", [description |-> "Sawtooth wave oscillator. Bright, buzzy, rich harmonics. Classic synth lead, bass.", category |-> "oscillator", tags |-> <<"sawtooth", "saw", "oscillator", "bright", "buzzy", "harmonics", "lead">>, example |-> "note(\"c4 e4 g4\").s(\"saw\")"]>>,
     <<"sawtooth", [description |-> "Sawtooth wave oscillator. Alias for saw. Bright, buzzy, rich in harmonics.", category |-> "oscillator", tags |-> <<"sawtooth", "saw", "oscillator", "bright", "buzzy", "harmonics">>, example |-> "note(\"c4 e4 g4\").s(\"sawtooth\")"]>>,
     <<"square", [description |-> "Square wave oscillator. Hollow, woody, retro. Chiptune, 8-bit, video game.", category |-> "oscillator", tags |-> <<"square", "oscillator", "hollow", "woody", "retro", "chiptune", "8-bit">>, example |-> "note(\"c4 e4 g4\").s(\"square\")"]>>,
     <<"triangle", [description |-> "Triangle wave oscillator. Soft, mellow, between sine and square. Gentle leads.", category |-> "oscillator", tags |-> <<"triangle", "oscillator", "soft", "mellow", "gentle">>, example |-> "note(\"c4 e4 g4\").s(\"triangle\")"]>>,
     <<"tri", [description |-> "Triangle wave oscillator. Alias for triangle. Soft, mellow tone.", category |-> "oscillator", tags |-> <<"triangle", "tri", "oscillator", "soft", "mellow">>, example |-> "note(\"c4 e4 g4\").s(\"tri\")"]>>
  >>

drum_machines ==
  <<
     <<"AJKPercusyn", [description |-> "AJK Percusyn drum synth. Analog percussion synthesizer. Unique electronic drums.", tags |-> <<"percusyn", "analog", "synth-drums", "electronic">>]>>,
     <<"AkaiLinn", [description |-> "Akai Linn MPC hybrid. Combines Akai sampling with Linn character. Hip-hop, R&B.", tags |-> <<"akai", "linn", "mpc", "hip-hop", "r&b", "sampling">>]>>,
     <<"AkaiMPC60", [description |-> "Akai MPC60 drum machine. Classic hip-hop sampler. Boom bap, golden era.", tags |-> <<"akai", "mpc60", "hip-hop", "boom-bap", "sampler", "classic">>]>>,
     <<"AkaiXR10", [description |-> "Akai XR10 drum machine. 90s Akai drums. Punchy electronic kit.", tags |-> <<"akai", "xr10", "90s", "electronic", "punchy">>]>>,
     <<"AlesisHR16", [description |-> "Alesis HR-16 drum machine. 80s/90s digital drums. Clean, punchy hits.", tags |-> <<"alesis", "hr16", "digital", "80s", "90s", "punchy">>]>>,
     <<"AlesisSR16", [description |-> "Alesis SR-16 drum machine. Popular 90s drums. Versatile, studio standard.", tags |-> <<"alesis", "sr16", "90s", "studio", "versatile">>]>>,
     <<"BossDR110", [description |-> "Boss DR-110 Dr. Rhythm. Compact analog drums. Lo-fi, characterful.", tags |-> <<"boss", "dr110", "analog", "lo-fi", "compact">>]>>,
     <<"BossDR220", [description |-> "Boss DR-220 Dr. Rhythm. 80s digital drums. Clean, versatile.", tags |-> <<"boss", "dr220", "digital", "80s", "clean">>]>>,
     <<"BossDR55", [description |-> "Boss DR-55 Dr. Rhythm. Early analog drum machine. Simple, punchy, classic.", tags |-> <<"boss", "dr55", "analog", "classic", "simple">>]>>,
     <<"BossDR550", [description |-> "Boss DR-550 Dr. Rhythm. 90s digital drums. Wide sound selection.", tags |-> <<"boss", "dr550", "digital", "90s", "versatile">>]>>,
     <<"BossDR660", [description |-> "Boss DR-660 Dr. Rhythm. Advanced 90s drums. High-quality samples.", tags |-> <<"boss", "dr660", "digital", "90s", "high-quality">>]>>,
     <<"CasioRZ1", [description |-> "Casio RZ-1 sampling drum machine. 80s sampler with built-in sounds. Quirky, nostalgic.", tags |-> <<"casio", "rz1", "sampler", "80s", "quirky">>]>>,
     <<"CasioSK1", [description |-> "Casio SK-1 sampling keyboard drums. Lo-fi, toy-like. Charming, nostalgic.", tags |-> <<"casio", "sk1", "lo-fi", "toy", "nostalgic">>]>>,
     <<"CasioVL1", [description |-> "Casio VL-1 VL-Tone drums. Iconic toy calculator synth drums. 8-bit, retro.", tags |-> <<"casio", "vl1", "toy", "8-bit", "retro", "calculator">>]>>,
     <<"DoepferMS404", [description |-> "Doepfer MS-404 modular drums. Analog modular synth drums. Experimental, raw.", tags |-> <<"doepfer", "ms404", "modular", "analog", "experimental">>]>>,
     <<"EmuDrumulator", [description |-> "E-mu Drumulator. Classic 80s digital drums. Electro, hip-hop essential.", tags |-> <<"emu", "drumulator", "80s", "electro", "hip-hop", "digital">>]>>,
     <<"EmuModular", [description |-> "E-mu Modular drum sounds. Modular synth drums. Experimental, unique.", tags |-> <<"emu", "modular", "synth", "experimental", "unique">>]>>,
     <<"EmuSP12", [description |-> "E-mu SP-12 sampler drums. Hip-hop classic. Boom bap, punchy, gritty.", tags |-> <<"emu", "sp12", "hip-hop", "boom-bap", "punchy", "sampler">>]>>,
     <<"KorgDDM110", [description |-> "Korg DDM-110 Super Drums. 80s digital drums. Punchy, characterful.", tags |-> <<"korg", "ddm110", "digital", "80s", "punchy">>]>>,
     <<"KorgKPR77", [description |-> "Korg KPR-77 drum machine. Analog drums, 80s character. Warm, punchy.", tags |-> <<"korg", "kpr77", "analog", "80s", "warm">>]>>,
     <<"KorgKR55", [description |-> "Korg KR-55 analog drums. Vintage rhythm machine. Warm, organic feel.", tags |-> <<"korg", "kr55", "analog", "vintage", "warm">>]>>,
     <<"KorgKRZ", [description |-> "Korg KRZ drum sounds. Korg rhythm sounds. Versatile, clean.", tags |-> <<"korg", "krz", "rhythm", "versatile">>]>>,
     <<"KorgM1", [description |-> "Korg M1 drum sounds. Iconic 80s workstation drums. Pop, dance, studio.", tags |-> <<"korg", "m1", "workstation", "80s", "pop", "dance">>]>>,
     <<"KorgMinipops", [description |-> "Korg Minipops rhythm machine. Vintage analog drums. Organ-combo style, retro.", tags |-> <<"korg", "minipops", "analog", "vintage", "retro">>]>>,
     <<"KorgPoly800", [description |-> "Korg Poly-800 drums. 80s polysynth drums. Digital, characterful.", tags |-> <<"korg", "poly800", "80s", "digital", "synth">>]>>,
     <<"KorgT3", [description |-> "Korg T3 workstation drums. 90s workstation sounds. Clean, professional.", tags |-> <<"korg", "t3", "workstation", "90s", "professional">>]>>,
     <<"Linn9000", [description |-> "Linn 9000 drum machine. Advanced Linn drums. Sampling, sequencing, 80s.", tags |-> <<"linn", "9000", "80s", "sampling", "sequencing">>]>>,
     <<"LinnDrum", [description |-> "LinnDrum classic. Iconic 80s digital drums. Pop, rock, hip-hop essential.", tags |-> <<"linndrum", "linn", "80s", "pop", "rock", "iconic">>]>>,
     <<"LinnLM1", [description |-> "Linn LM-1 first Linn drum machine. Revolutionary digital drums. Prince, 80s pop.", tags |-> <<"linn", "lm1", "80s", "pop", "revolutionary", "prince">>]>>,
     <<"LinnLM2", [description |-> "Linn LM-2 drum machine. Refined LM-1. 80s pop, rock drums.", tags |-> <<"linn", "lm2", "80s", "pop", "rock">>]>>,
     <<"MFB512", [description |-> "MFB-512 analog drum machine. German analog drums. Punchy, raw, electronic.", tags |-> <<"mfb", "512", "analog", "german", "electronic", "raw">>]>>,
     <<"MPC1000", [description |-> "Akai MPC1000 drums. 2000s MPC. Hip-hop, modern production.", tags |-> <<"akai", "mpc1000", "2000s", "hip-hop", "modern">>]>>,
     <<"MoogConcertMateMG1", [description |-> "Moog Concertmate MG-1 drums. Moog analog synth drums. Warm, characterful.", tags |-> <<"moog", "concertmate", "mg1", "analog", "warm">>]>>,
     <<"OberheimDMX", [description |-> "Oberheim DMX drum machine. 80s classic. Electro, hip-hop, new wave.", tags |-> <<"oberheim", "dmx", "80s", "electro", "hip-hop", "new-wave">>]>>,
     <<"RhodesPolaris", [description |-> "Rhodes Polaris drums. Rhodes synth drum sounds. Warm, analog character.", tags |-> <<"rhodes", "polaris", "synth", "analog", "warm">>]>>,
     <<"RhythmAce", [description |-> "Ace Tone Rhythm Ace. Vintage organ rhythm box. 60s/70s, retro, warm.", tags |-> <<"ace-tone", "rhythm-ace", "vintage", "60s", "70s", "organ">>]>>,
     <<"RolandCompurhythm1000", [description |-> "Roland CR-1000 Compurhythm. Advanced preset drums. Clean, versatile.", tags |-> <<"roland", "cr1000", "compurhythm", "preset", "clean">>]>>,
     <<"RolandCompurhythm78", [description |-> "Roland CR-78 Compurhythm. First programmable drum machine. Vintage, iconic.", tags |-> <<"roland", "cr78", "compurhythm", "vintage", "iconic", "programmable">>]>>,
     <<"RolandCompurhythm8000", [description |-> "Roland CR-8000 Compurhythm. Analog preset drums. Warm, classic.", tags |-> <<"roland", "cr8000", "compurhythm", "analog", "warm">>]>>,
     <<"RolandD110", [description |-> "Roland D-110 drum sounds. LA synthesis drums. 80s digital, clean.", tags |-> <<"roland", "d110", "la-synthesis", "80s", "digital">>]>>,
     <<"RolandD70", [description |-> "Roland D-70 drums. 90s workstation drums. Versatile, professional.", tags |-> <<"roland", "d70", "workstation", "90s", "professional">>]>>,
     <<"RolandDDR30", [description |-> "Roland DDR-30 drum machine. Digital drums. Clean, punchy.", tags |-> <<"roland", "ddr30", "digital", "punchy">>]>>,
     <<"RolandJD990", [description |-> "Roland JD-990 drums. High-end 90s synth drums. Lush, professional.", tags |-> <<"roland", "jd990", "90s", "synth", "professional">>]>>,
     <<"RolandMC202", [description |-> "Roland MC-202 drums. Micro Composer drums. Analog, TB-303 era.", tags |-> <<"roland", "mc202", "analog", "micro-composer">>]>>,
     <<"RolandMC303", [description |-> "Roland MC-303 Groovebox drums. 90s dance machine. House, techno.", tags |-> <<"roland", "mc303", "groovebox", "90s", "house", "techno">>]>>,
     <<"RolandMT32", [description |-> "Roland MT-32 drums. LA synthesis module drums. 80s game soundtracks.", tags |-> <<"roland", "mt32", "la-synthesis", "80s", "game">>]>>,
     <<"RolandR8", [description |-> "Roland R-8 Human Rhythm Composer. High-end 80s drums. Realistic, versatile.", tags |-> <<"roland", "r8", "80s", "realistic", "human-rhythm">>]>>,
     <<"RolandS50", [description |-> "Roland S-50 sampler drums. 80s sampler. Warm, vintage digital.", tags |-> <<"roland", "s50", "sampler", "80s", "warm">>]>>,
     <<"RolandSH09", [description |-> "Roland SH-09 synth drums. Analog monosynth drums. Raw, punchy.", tags |-> <<"roland", "sh09", "analog", "monosynth", "raw">>]>>,
     <<"RolandSystem100", [description |-> "Roland System-100 modular drums. Semi-modular analog. Raw, experimental.", tags |-> <<"roland", "system100", "modular", "analog", "experimental">>]>>,
     <<"RolandTR505", [description |-> "Roland TR-505 drum machine. Digital successor to 606. Clean, usable.", tags |-> <<"roland", "tr505", "digital", "clean">>]>>,
     <<"RolandTR606", [description |-> "Roland TR-606 Drumatix. Analog companion to TB-303. Acid house essential.", tags |-> <<"roland", "tr606", "analog", "acid", "house", "drumatix">>]>>,
     <<"RolandTR626", [description |-> "Roland TR-626 Rhythm Composer. Digital drums. Latin sounds, 80s.", tags |-> <<"roland", "tr626", "digital", "latin", "80s">>]>>,
     <<"RolandTR707", [description |-> "Roland TR-707 drum machine. Digital, clean 80s drums. Pop, dance.", tags |-> <<"roland", "tr707", "digital", "80s", "pop", "dance">>]>>,
     <<"RolandTR727", [description |-> "Roland TR-727 Latin percussion. Latin version of 707. Congas, bongos, timbales.", tags |-> <<"roland", "tr727", "latin", "percussion", "congas", "bongos">>]>>,
     <<"RolandTR808", [description |-> "Roland TR-808 Rhythm Composer. THE iconic drum machine. Hip-hop, electronic essential.", tags |-> <<"roland", "tr808", "808", "hip-hop", "electronic", "iconic", "classic">>]>>,
     <<"RolandTR909", [description |-> "Roland TR-909 Rhythm Composer. House and techno essential. Punchy, powerful.", tags |-> <<"roland", "tr909", "909", "house", "techno", "essential", "punchy">>]>>,
     <<"SakataDPM48", [description |-> "Sakata DPM-48 drums. Rare Japanese drums. Unique, characterful.", tags |-> <<"sakata", "dpm48", "japanese", "rare", "unique">>]>>,
     <<"SequentialCircuitsDrumtracks", [description |-> "Sequential Circuits Drumtracks. 80s digital drums. Clean, usable.", tags |-> <<"sequential", "drumtracks", "80s", "digital", "clean">>]>>,
     <<"SequentialCircuitsTom", [description |-> "Sequential Circuits TOM. Analog drum synth. Tunable, unique.", tags |-> <<"sequential", "tom", "analog", "drum-synth", "tunable">>]>>,
     <<"SergeModular", [description |-> "Serge Modular drums. Esoteric modular drums. Experimental, unique.", tags |-> <<"serge", "modular", "experimental", "unique", "esoteric">>]>>,
     <<"SimmonsSDS400", [description |-> "Simmons SDS-400 electronic drums. 80s electronic drums. Iconic hex pads.", tags |-> <<"simmons", "sds400", "electronic", "80s", "hex-pads">>]>>,
     <<"SimmonsSDS5", [description |-> "Simmons SDS-5 electronic drums. THE 80s electronic drum sound. Iconic.", tags |-> <<"simmons", "sds5", "electronic", "80s", "iconic">>]>>,
     <<"SoundmastersR88", [description |-> "Soundmaster SR-88 drums. Budget analog drums. Lo-fi, characterful.", tags |-> <<"soundmaster", "sr88", "analog", "lo-fi", "budget">>]>>,
     <<"UnivoxMicroRhythmer12", [description |-> "Univox Micro Rhythmer 12. Vintage preset drums. 70s, retro.", tags |-> <<"univox", "micro-rhythmer", "vintage", "70s", "preset">>]>>,
     <<"ViscoSpaceDrum", [description |-> "Visco Space Drum. Unique electronic drums. Spacey, experimental.", tags |-> <<"visco", "space-drum", "electronic", "spacey", "experimental">>]>>,
     <<"XdrumLM8953", [description |-> "X-drum LM-8953. Custom drum sounds. Electronic, unique.", tags |-> <<"xdrum", "lm8953", "electronic", "custom">>]>>,
     <<"YamahaRM50", [description |-> "Yamaha RM50 drum module. 90s drum module. High-quality, versatile.", tags |-> <<"yamaha", "rm50", "90s", "module", "high-quality">>]>>,
     <<"YamahaRX21", [description |-> "Yamaha RX21 drum machine. Budget 80s drums. Digital, punchy.", tags |-> <<"yamaha", "rx21", "80s", "digital", "budget">>]>>,
     <<"YamahaRX5", [description |-> "Yamaha RX5 drum machine. Premium 80s drums. High-quality samples.", tags |-> <<"yamaha", "rx5", "80s", "digital", "premium">>]>>,
     <<"YamahaRY30", [description |-> "Yamaha RY30 drum machine. 90s AWM drums. Versatile, modern.", tags |-> <<"yamaha", "ry30", "90s", "awm", "versatile">>]>>,
     <<"YamahaTG33", [description |-> "Yamaha TG33 drums. Vector synthesis drums. Unique, evolving.", tags |-> <<"yamaha", "tg33", "vector", "synthesis", "unique">>]>>
  >>

vcsl_instruments ==
  <<
     <<"ballwhistle", [description |-> "Ball whistle percussion. Sports referee whistle. Shrill, attention-getting.", category |-> "percussion", tags |-> <<"whistle", "ball", "sports", "sfx">>]>>,
     <<"bassdrum1", [description |-> "VCSL acoustic bass drum 1. Deep orchestral kick. Concert, classical.", category |-> "percussion", tags |-> <<"bass-drum", "acoustic", "orchestral", "deep">>]>>,
     <<"bassdrum2", [description |-> "VCSL acoustic bass drum 2. Variant with different character. Orchestral.", category |-> "percussion", tags |-> <<"bass-drum", "acoustic", "orchestral", "variant">>]>>,
     <<"bongo", [description |-> "VCSL bongo drums. Hand drums, Latin percussion. Warm, organic.", category |-> "percussion", tags |-> <<"bongo", "hand-drum", "latin", "organic">>]>>,
     <<"conga", [description |-> "VCSL conga drums. Tall hand drums. Latin, Afro-Cuban, warm.", category |-> "percussion", tags |-> <<"conga", "hand-drum", "latin", "afro-cuban">>]>>,
     <<"darbuka", [description |-> "VCSL darbuka. Middle Eastern goblet drum. Arabic, Turkish, belly dance.", category |-> "percussion", tags |-> <<"darbuka", "middle-eastern", "goblet", "arabic">>]>>,
     <<"framedrum", [description |-> "VCSL frame drum. Large circular drum. World, shamanic, bodhran-like.", category |-> "percussion", tags |-> <<"frame-drum", "world", "shamanic", "circular">>]>>,
     <<"snare_modern", [description |-> "VCSL modern snare drum. Contemporary snare sound. Versatile, studio.", category |-> "percussion", tags |-> <<"snare", "modern", "studio", "versatile">>]>>,
     <<"snare_hi", [description |-> "VCSL high-pitched snare. Bright, cutting snare. Piccolo-style.", category |-> "percussion", tags |-> <<"snare", "high", "bright", "piccolo">>]>>,
     <<"snare_low", [description |-> "VCSL low snare drum. Deep snare sound. Fat, warm.", category |-> "percussion", tags |-> <<"snare", "low", "deep", "warm">>]>>,
     <<"snare_rim", [description |-> "VCSL snare rim shot. Rim click/shot. Sharp, accented.", category |-> "percussion", tags |-> <<"snare", "rim", "rimshot", "sharp">>]>>,
     <<"tom_mallet", [description |-> "VCSL tom with mallet. Soft attack tom. Orchestral, melodic.", category |-> "percussion", tags |-> <<"tom", "mallet", "soft", "orchestral">>]>>,
     <<"tom_stick", [description |-> "VCSL tom with stick. Standard tom hit. Rock, pop drums.", category |-> "percussion", tags |-> <<"tom", "stick", "rock", "pop">>]>>,
     <<"tom_rim", [description |-> "VCSL tom rim. Tom rim click. Accent, variation.", category |-> "percussion", tags |-> <<"tom", "rim", "accent">>]>>,
     <<"tom2_mallet", [description |-> "VCSL tom 2 with mallet. Second tom, mallet hit.", category |-> "percussion", tags |-> <<"tom", "mallet", "variant">>]>>,
     <<"tom2_stick", [description |-> "VCSL tom 2 with stick. Second tom, stick hit.", category |-> "percussion", tags |-> <<"tom", "stick", "variant">>]>>,
     <<"tom2_rim", [description |-> "VCSL tom 2 rim. Second tom rim click.", category |-> "percussion", tags |-> <<"tom", "rim", "variant">>]>>,
     <<"timpani", [description |-> "VCSL timpani. Orchestral kettle drums. Classical, dramatic.", category |-> "percussion", tags |-> <<"timpani", "orchestral", "classical", "dramatic">>]>>,
     <<"timpani_roll", [description |-> "VCSL timpani roll. Sustained timpani tremolo. Building tension.", category |-> "percussion", tags |-> <<"timpani", "roll", "tremolo", "tension">>]>>,
     <<"timpani2", [description |-> "VCSL timpani 2. Second timpani variant. Different tuning.", category |-> "percussion", tags |-> <<"timpani", "variant", "orchestral">>]>>,
     <<"recorder_alto_stacc", [description |-> "VCSL alto recorder staccato. Short, detached notes. Renaissance.", category |-> "woodwind", tags |-> <<"recorder", "alto", "staccato", "renaissance">>]>>,
     <<"recorder_alto_vib", [description |-> "VCSL alto recorder vibrato. Expressive with vibrato. Melodic.", category |-> "woodwind", tags |-> <<"recorder", "alto", "vibrato", "expressive">>]>>,
     <<"recorder_alto_sus", [description |-> "VCSL alto recorder sustained. Long, held notes. Legato.", category |-> "woodwind", tags |-> <<"recorder", "alto", "sustained", "legato">>]>>,
     <<"recorder_bass_stacc", [description |-> "VCSL bass recorder staccato. Low recorder, short notes.", category |-> "woodwind", tags |-> <<"recorder", "bass", "staccato", "low">>]>>,
     <<"recorder_bass_vib", [description |-> "VCSL bass recorder vibrato. Low recorder with vibrato.", category |-> "woodwind", tags |-> <<"recorder", "bass", "vibrato", "low">>]>>,
     <<"recorder_bass_sus", [description |-> "VCSL bass recorder sustained. Low recorder, long notes.", category |-> "woodwind", tags |-> <<"recorder", "bass", "sustained", "low">>]>>,
     <<"recorder_soprano_stacc", [description |-> "VCSL soprano recorder staccato. High recorder, short.", category |-> "woodwind", tags |-> <<"recorder", "soprano", "staccato", "high">>]>>,
     <<"recorder_soprano_sus", [description |-> "VCSL soprano recorder sustained. High recorder, long.", category |-> "woodwind", tags |-> <<"recorder", "soprano", "sustained", "high">>]>>,
     <<"recorder_tenor_stacc", [description |-> "VCSL tenor recorder staccato. Mid-range recorder, short.", category |-> "woodwind", tags |-> <<"recorder", "tenor", "staccato">>]>>,
     <<"recorder_tenor_vib", [description |-> "VCSL tenor recorder vibrato. Mid-range with vibrato.", category |-> "woodwind", tags |-> <<"recorder", "tenor", "vibrato">>]>>,
     <<"recorder_tenor_sus", [description |-> "VCSL tenor recorder sustained. Mid-range, long notes.", category |-> "woodwind", tags |-> <<"recorder", "tenor", "sustained">>]>>,
     <<"ocarina_small_stacc", [description |-> "VCSL small ocarina staccato. Small clay flute, short notes.", category |-> "woodwind", tags |-> <<"ocarina", "small", "staccato", "clay">>]>>,
     <<"ocarina_small", [description |-> "VCSL small ocarina. High-pitched clay wind instrument.", category |-> "woodwind", tags |-> <<"ocarina", "small", "high", "clay">>]>>,
     <<"ocarina", [description |-> "VCSL ocarina. Clay wind instrument. Zelda-like, pure, innocent.", category |-> "woodwind", tags |-> <<"ocarina", "clay", "pure", "zelda">>]>>,
     <<"ocarina_vib", [description |-> "VCSL ocarina vibrato. Ocarina with expressive vibrato.", category |-> "woodwind", tags |-> <<"ocarina", "vibrato", "expressive">>]>>,
     <<"saxello", [description |-> "VCSL saxello. Rare curved soprano sax. Unique, jazz.", category |-> "woodwind", tags |-> <<"saxello", "saxophone", "soprano", "jazz", "rare">>]>>,
     <<"saxello_stacc", [description |-> "VCSL saxello staccato. Short, punchy sax notes.", category |-> "woodwind", tags |-> <<"saxello", "saxophone", "staccato">>]>>,
     <<"saxello_vib", [description |-> "VCSL saxello vibrato. Expressive saxello with vibrato.", category |-> "woodwind", tags |-> <<"saxello", "saxophone", "vibrato">>]>>,
     <<"sax", [description |-> "VCSL tenor saxophone. Classic jazz/R&B sax. Rich, soulful.", category |-> "woodwind", tags |-> <<"saxophone", "tenor", "jazz", "soulful">>]>>,
     <<"sax_stacc", [description |-> "VCSL tenor sax staccato. Short, punchy sax hits.", category |-> "woodwind", tags |-> <<"saxophone", "tenor", "staccato">>]>>,
     <<"sax_vib", [description |-> "VCSL tenor sax vibrato. Expressive sax with vibrato.", category |-> "woodwind", tags |-> <<"saxophone", "tenor", "vibrato">>]>>,
     <<"pipeorgan_loud_pedal", [description |-> "VCSL pipe organ loud pedal. Deep bass pedal, full power.", category |-> "organ", tags |-> <<"organ", "pipe", "pedal", "loud", "bass">>]>>,
     <<"pipeorgan_loud", [description |-> "VCSL pipe organ loud. Full registration, powerful.", category |-> "organ", tags |-> <<"organ", "pipe", "loud", "powerful">>]>>,
     <<"pipeorgan_quiet_pedal", [description |-> "VCSL pipe organ quiet pedal. Soft bass pedal.", category |-> "organ", tags |-> <<"organ", "pipe", "pedal", "quiet", "soft">>]>>,
     <<"pipeorgan_quiet", [description |-> "VCSL pipe organ quiet. Soft registration, intimate.", category |-> "organ", tags |-> <<"organ", "pipe", "quiet", "intimate">>]>>,
     <<"organ_4inch", [description |-> "VCSL 4-inch organ pipes. Small organ pipes, high.", category |-> "organ", tags |-> <<"organ", "small", "high", "pipes">>]>>,
     <<"organ_8inch", [description |-> "VCSL 8-inch organ pipes. Standard organ pipes.", category |-> "organ", tags |-> <<"organ", "standard", "pipes">>]>>,
     <<"organ_full", [description |-> "VCSL full organ. Complete organ registration. Rich, full.", category |-> "organ", tags |-> <<"organ", "full", "rich", "complete">>]>>,
     <<"clavisynth", [description |-> "VCSL clavisynth. Clavinet/synth hybrid. Funky, electronic.", category |-> "keyboards", tags |-> <<"clavinet", "synth", "funky", "electronic">>]>>,
     <<"fmpiano", [description |-> "VCSL FM piano. DX7-style FM electric piano. 80s, digital, bright.", category |-> "keyboards", tags |-> <<"piano", "fm", "dx7", "80s", "digital">>]>>,
     <<"piano1", [description |-> "VCSL piano 1. Acoustic grand piano. Classical, versatile.", category |-> "keyboards", tags |-> <<"piano", "acoustic", "grand", "classical">>]>>,
     <<"kawai", [description |-> "VCSL Kawai piano. Kawai grand piano sample. Bright, clear.", category |-> "keyboards", tags |-> <<"piano", "kawai", "grand", "bright">>]>>,
     <<"steinway", [description |-> "VCSL Steinway piano. Steinway grand piano. Rich, warm, concert.", category |-> "keyboards", tags |-> <<"piano", "steinway", "grand", "concert", "rich">>]>>,
     <<"harp", [description |-> "VCSL concert harp. Classical pedal harp. Ethereal, sweeping.", category |-> "strings", tags |-> <<"harp", "concert", "classical", "ethereal">>]>>,
     <<"folkharp", [description |-> "VCSL folk harp. Celtic/lever harp. Folk, Celtic, intimate.", category |-> "strings", tags |-> <<"harp", "folk", "celtic", "lever">>]>>,
     <<"strumstick", [description |-> "VCSL strumstick. Simple Appalachian string instrument. Folk, drone.", category |-> "strings", tags |-> <<"strumstick", "appalachian", "folk", "drone">>]>>,
     <<"psaltery_pluck", [description |-> "VCSL psaltery plucked. Medieval plucked zither. Plucky, ancient.", category |-> "strings", tags |-> <<"psaltery", "plucked", "medieval", "zither">>]>>,
     <<"psaltery_spiccato", [description |-> "VCSL psaltery spiccato. Short bowed psaltery notes.", category |-> "strings", tags |-> <<"psaltery", "spiccato", "bowed", "short">>]>>,
     <<"psaltery_bow", [description |-> "VCSL bowed psaltery. Sustained bowed psaltery. Ethereal, haunting.", category |-> "strings", tags |-> <<"psaltery", "bowed", "ethereal", "haunting">>]>>,
     <<"dantranh", [description |-> "VCSL dan tranh. Vietnamese zither. Asian, traditional, delicate.", category |-> "world", tags |-> <<"dan-tranh", "vietnamese", "zither", "asian">>]>>,
     <<"dantranh_tremolo", [description |-> "VCSL dan tranh tremolo. Tremolo technique on dan tranh.", category |-> "world", tags |-> <<"dan-tranh", "tremolo", "vietnamese">>]>>,
     <<"dantranh_vibrato", [description |-> "VCSL dan tranh vibrato. Vibrato technique on dan tranh.", category |-> "world", tags |-> <<"dan-tranh", "vibrato", "vietnamese">>]>>,
     <<"harmonica", [description |-> "VCSL harmonica. Blues harp. Expressive, folk, blues.", category |-> "woodwind", tags |-> <<"harmonica", "blues", "harp", "folk">>]>>,
     <<"harmonica_soft", [description |-> "VCSL soft harmonica. Gentle harmonica playing.", category |-> "woodwind", tags |-> <<"harmonica", "soft", "gentle">>]>>,
     <<"harmonica_vib", [description |-> "VCSL harmonica vibrato. Harmonica with vibrato.", category |-> "woodwind", tags |-> <<"harmonica", "vibrato", "expressive">>]>>,
     <<"super64", [description |-> "VCSL Super 64 chromatic harmonica. Large chromatic harmonica.", category |-> "woodwind", tags |-> <<"harmonica", "chromatic", "super64">>]>>,
     <<"super64_acc", [description |-> "VCSL Super 64 accented. Strong attack harmonica.", category |-> "woodwind", tags |-> <<"harmonica", "chromatic", "accented">>]>>,
     <<"super64_vib", [description |-> "VCSL Super 64 vibrato. Chromatic harmonica with vibrato.", category |-> "woodwind", tags |-> <<"harmonica", "chromatic", "vibrato">>]>>,
     <<"didgeridoo", [description |-> "VCSL didgeridoo. Australian Aboriginal drone instrument. Deep, drone, circular breathing.", category |-> "world", tags |-> <<"didgeridoo", "australian", "drone", "aboriginal">>]>>,
     <<"agogo", [description |-> "VCSL agogo bells. Brazilian percussion bells. Latin, samba, bright.", category |-> "percussion", tags |-> <<"agogo", "bells", "brazilian", "samba">>]>>,
     <<"anvil", [description |-> "VCSL anvil. Metal anvil hit. Industrial, orchestral effect.", category |-> "percussion", tags |-> <<"anvil", "metal", "industrial", "orchestral">>]>>,
     <<"kalimba", [description |-> "VCSL kalimba. African thumb piano. Plucky, gentle, melodic.", category |-> "percussion", tags |-> <<"kalimba", "thumb-piano", "african", "melodic">>]>>,
     <<"kalimba_pad", [description |-> "VCSL kalimba pad. Sustained kalimba pad sound. Ambient, ethereal.", category |-> "percussion", tags |-> <<"kalimba", "pad", "ambient", "ethereal">>]>>,
     <<"marimba", [description |-> "VCSL marimba. Large wooden mallet percussion. Warm, resonant.", category |-> "percussion", tags |-> <<"marimba", "mallet", "wooden", "warm">>]>>,
     <<"xylophone", [description |-> "VCSL xylophone. Bright wooden mallet percussion. Crisp, piercing.", category |-> "percussion", tags |-> <<"xylophone", "mallet", "bright", "crisp">>]>>,
     <<"xylophone_hard", [description |-> "VCSL xylophone hard mallets. Brighter, more attack.", category |-> "percussion", tags |-> <<"xylophone", "hard", "bright", "attack">>]>>,
     <<"trainwhistle", [description |-> "VCSL train whistle. Steam locomotive whistle. Nostalgic, effect.", category |-> "sfx", tags |-> <<"train", "whistle", "steam", "nostalgic">>]>>,
     <<"siren", [description |-> "VCSL siren. Emergency siren sound. Alert, urgent.", category |-> "sfx", tags |-> <<"siren", "emergency", "alert", "urgent">>]>>,
     <<"wineglass", [description |-> "VCSL wineglass. Singing glass rim. Ethereal, glass harmonica-like.", category |-> "sfx", tags |-> <<"wineglass", "glass", "ethereal", "singing">>]>>,
     <<"wineglass_slow", [description |-> "VCSL wineglass slow. Slowly bowed wineglass. Sustained, haunting.", category |-> "sfx", tags |-> <<"wineglass", "slow", "sustained", "haunting">>]>>
  >>

wavetables ==
  <<
     <<"wt_01", [description |-> "Wavetable waveform 01. Basic synthesis texture. Evolving, complex.", category |-> "wavetable", tags |-> <<"wavetable", "basic", "synthesis", "evolving">>]>>,
     <<"wt_02", [description |-> "Wavetable waveform 02. Basic synthesis texture variant 2.", category |-> "wavetable", tags |-> <<"wavetable", "basic", "synthesis">>]>>,
     <<"wt_03", [description |-> "Wavetable waveform 03. Basic synthesis texture variant 3.", category |-> "wavetable", tags |-> <<"wavetable", "basic", "synthesis">>]>>,
     <<"wt_04", [description |-> "Wavetable waveform 04. Basic synthesis texture variant 4.", category |-> "wavetable", tags |-> <<"wavetable", "basic", "synthesis">>]>>,
     <<"wt_05", [description |-> "Wavetable waveform 05. Basic synthesis texture variant 5.", category |-> "wavetable", tags |-> <<"wavetable", "basic", "synthesis">>]>>,
     <<"wt_06", [description |-> "Wavetable waveform 06. Basic synthesis texture variant 6.", category |-> "wavetable", tags |-> <<"wavetable", "basic", "synthesis">>]>>,
     <<"wt_07", [description |-> "Wavetable waveform 07. Basic synthesis texture variant 7.", category |-> "wavetable", tags |-> <<"wavetable", "basic", "synthesis">>]>>,
     <<"wt_08", [description |-> "Wavetable waveform 08. Basic synthesis texture variant 8.", category |-> "wavetable", tags |-> <<"wavetable", "basic", "synthesis">>]>>,
     <<"wt_09", [description |-> "Wavetable waveform 09. Basic synthesis texture variant 9.", category |-> "wavetable", tags |-> <<"wavetable", "basic", "synthesis">>]>>,
     <<"wt_10", [description |-> "Wavetable waveform 10. Basic synthesis texture variant 10.", category |-> "wavetable", tags |-> <<"wavetable", "basic", "synthesis">>]>>,
     <<"wt_11", [description |-> "Wavetable waveform 11. Basic synthesis texture variant 11.", category |-> "wavetable", tags |-> <<"wavetable", "basic", "synthesis">>]>>,
     <<"wt_12", [description |-> "Wavetable waveform 12. Basic synthesis texture variant 12.", category |-> "wavetable", tags |-> <<"wavetable", "basic", "synthesis">>]>>,
     <<"wt_13", [description |-> "Wavetable waveform 13. Basic synthesis texture variant 13.", category |-> "wavetable", tags |-> <<"wavetable", "basic", "synthesis">>]>>,
     <<"wt_14", [description |-> "Wavetable waveform 14. Basic synthesis texture variant 14.", category |-> "wavetable", tags |-> <<"wavetable", "basic", "synthesis">>]>>,
     <<"wt_15", [description |-> "Wavetable waveform 15. Basic synthesis texture variant 15.", category |-> "wavetable", tags |-> <<"wavetable", "basic", "synthesis">>]>>,
     <<"wt_16", [description |-> "Wavetable waveform 16. Basic synthesis texture variant 16.", category |-> "wavetable", tags |-> <<"wavetable", "basic", "synthesis">>]>>,
     <<"wt_17", [description |-> "Wavetable waveform 17. Basic synthesis texture variant 17.", category |-> "wavetable", tags |-> <<"wavetable", "basic", "synthesis">>]>>,
     <<"wt_18", [description |-> "Wavetable waveform 18. Basic synthesis texture variant 18.", category |-> "wavetable", tags |-> <<"wavetable", "basic", "synthesis">>]>>,
     <<"wt_19", [description |-> "Wavetable waveform 19. Basic synthesis texture variant 19.", category |-> "wavetable", tags |-> <<"wavetable", "basic", "synthesis">>]>>,
     <<"wt_20", [description |-> "Wavetable waveform 20. Basic synthesis texture variant 20.", category |-> "wavetable", tags |-> <<"wavetable", "basic", "synthesis">>]>>,
     <<"wt_aguitar", [description |-> "Wavetable acoustic guitar. Guitar harmonic content as wavetable. Organic, plucky.", category |-> "wavetable", tags |-> <<"wavetable", "guitar", "acoustic", "organic">>]>>,
     <<"wt_altosax", [description |-> "Wavetable alto saxophone. Sax timbre as wavetable. Reedy, expressive.", category |-> "wavetable", tags |-> <<"wavetable", "saxophone", "alto", "reedy">>]>>,
     <<"wt_cello", [description |-> "Wavetable cello. Cello harmonics as wavetable. Rich, bowed, strings.", category |-> "wavetable", tags |-> <<"wavetable", "cello", "strings", "bowed">>]>>,
     <<"wt_clarinett", [description |-> "Wavetable clarinet. Clarinet timbre as wavetable. Woody, warm.", category |-> "wavetable", tags |-> <<"wavetable", "clarinet", "woody", "warm">>]>>,
     <<"wt_clavinet", [description |-> "Wavetable clavinet. Funky clavinet as wavetable. Percussive, funky.", category |-> "wavetable", tags |-> <<"wavetable", "clavinet", "funky", "percussive">>]>>,
     <<"wt_dbass", [description |-> "Wavetable double bass. Upright bass as wavetable. Deep, woody, organic.", category |-> "wavetable", tags |-> <<"wavetable", "bass", "double-bass", "woody">>]>>,
     <<"wt_ebass", [description |-> "Wavetable electric bass. Electric bass as wavetable. Punchy, round.", category |-> "wavetable", tags |-> <<"wavetable", "bass", "electric", "punchy">>]>>,
     <<"wt_eguitar", [description |-> "Wavetable electric guitar. Electric guitar as wavetable. Versatile, harmonic.", category |-> "wavetable", tags |-> <<"wavetable", "guitar", "electric", "harmonic">>]>>,
     <<"wt_eorgan", [description |-> "Wavetable electric organ. Organ drawbars as wavetable. Classic, keys.", category |-> "wavetable", tags |-> <<"wavetable", "organ", "electric", "drawbar">>]>>,
     <<"wt_epiano", [description |-> "Wavetable electric piano. Rhodes-style as wavetable. Warm, bell-like.", category |-> "wavetable", tags |-> <<"wavetable", "piano", "electric", "rhodes">>]>>,
     <<"wt_flute", [description |-> "Wavetable flute. Flute timbre as wavetable. Airy, breathy.", category |-> "wavetable", tags |-> <<"wavetable", "flute", "airy", "breathy">>]>>,
     <<"wt_oboe", [description |-> "Wavetable oboe. Oboe as wavetable. Nasal, expressive, reedy.", category |-> "wavetable", tags |-> <<"wavetable", "oboe", "nasal", "reedy">>]>>,
     <<"wt_piano", [description |-> "Wavetable piano. Piano harmonics as wavetable. Bright, rich.", category |-> "wavetable", tags |-> <<"wavetable", "piano", "acoustic", "rich">>]>>,
     <<"wt_theremin", [description |-> "Wavetable theremin. Theremin-style wavetable. Eerie, vocal-like, sci-fi.", category |-> "wavetable", tags |-> <<"wavetable", "theremin", "eerie", "sci-fi">>]>>,
     <<"wt_violin", [description |-> "Wavetable violin. Violin as wavetable. Expressive, bowed, strings.", category |-> "wavetable", tags |-> <<"wavetable", "violin", "strings", "bowed">>]>>,
     <<"wt_fmsynth", [description |-> "Wavetable FM synthesis. FM synth textures. Digital, bell-like, metallic.", category |-> "wavetable", tags |-> <<"wavetable", "fm", "digital", "metallic">>]>>,
     <<"wt_distorted", [description |-> "Wavetable distorted. Heavy distortion wavetable. Aggressive, saturated.", category |-> "wavetable", tags |-> <<"wavetable", "distortion", "aggressive", "saturated">>]>>,
     <<"wt_granular", [description |-> "Wavetable granular. Granular synthesis texture. Textural, fragmented.", category |-> "wavetable", tags |-> <<"wavetable", "granular", "textural", "fragmented">>]>>,
     <<"wt_birds", [description |-> "Wavetable birds. Bird-like textures. Nature, chirping, organic.", category |-> "wavetable", tags |-> <<"wavetable", "birds", "nature", "organic">>]>>,
     <<"wt_bitreduced", [description |-> "Wavetable bit-reduced. Lo-fi, crushed. 8-bit, retro, crunchy.", category |-> "wavetable", tags |-> <<"wavetable", "bitcrush", "lo-fi", "8-bit">>]>>,
     <<"wt_hdrawn", [description |-> "Wavetable hand-drawn. Custom drawn waveforms. Unique, experimental.", category |-> "wavetable", tags |-> <<"wavetable", "hand-drawn", "custom", "experimental">>]>>,
     <<"wt_hvoice", [description |-> "Wavetable harmonic voice. Vocal harmonics. Choir-like, ethereal.", category |-> "wavetable", tags |-> <<"wavetable", "voice", "harmonic", "ethereal">>]>>,
     <<"wt_linear", [description |-> "Wavetable linear. Linear waveform morphing. Smooth, evolving.", category |-> "wavetable", tags |-> <<"wavetable", "linear", "smooth", "morphing">>]>>,
     <<"wt_oscchip", [description |-> "Wavetable oscillator chip. Chip-style waveforms. 8-bit, chiptune, retro.", category |-> "wavetable", tags |-> <<"wavetable", "chip", "8-bit", "chiptune">>]>>,
     <<"wt_overtone", [description |-> "Wavetable overtone. Rich overtone content. Harmonic, complex.", category |-> "wavetable", tags |-> <<"wavetable", "overtone", "harmonic", "complex">>]>>,
     <<"wt_pluckalgo", [description |-> "Wavetable pluck algorithm. Karplus-Strong style. Plucky, string-like.", category |-> "wavetable", tags |-> <<"wavetable", "pluck", "karplus-strong", "string">>]>>,
     <<"wt_raw", [description |-> "Wavetable raw. Unprocessed raw waveforms. Pure, fundamental.", category |-> "wavetable", tags |-> <<"wavetable", "raw", "pure", "unprocessed">>]>>,
     <<"wt_sinharm", [description |-> "Wavetable sine harmonic. Additive sine harmonics. Clean, pure, harmonic.", category |-> "wavetable", tags |-> <<"wavetable", "sine", "harmonic", "additive">>]>>,
     <<"wt_snippets", [description |-> "Wavetable snippets. Short audio snippets as wavetable. Glitchy, textural.", category |-> "wavetable", tags |-> <<"wavetable", "snippets", "glitch", "textural">>]>>,
     <<"wt_stereo", [description |-> "Wavetable stereo. Wide stereo wavetables. Spacious, wide.", category |-> "wavetable", tags |-> <<"wavetable", "stereo", "wide", "spacious">>]>>,
     <<"wt_stringbox", [description |-> "Wavetable string box. String ensemble wavetable. Lush, ensemble.", category |-> "wavetable", tags |-> <<"wavetable", "strings", "ensemble", "lush">>]>>,
     <<"wt_symetric", [description |-> "Wavetable symmetric. Symmetric waveforms. Balanced, clean.", category |-> "wavetable", tags |-> <<"wavetable", "symmetric", "balanced", "clean">>]>>,
     <<"wt_vgame", [description |-> "Wavetable video game. Video game sound textures. Retro, game, 8-bit.", category |-> "wavetable", tags |-> <<"wavetable", "video-game", "retro", "8-bit">>]>>,
     <<"wt_vgamebasic", [description |-> "Wavetable video game basic. Simple game waveforms. Chiptune, simple.", category |-> "wavetable", tags |-> <<"wavetable", "video-game", "basic", "chiptune">>]>>,
     <<"wt_c604", [description |-> "Wavetable C604. C64-style chip waveforms. Commodore, SID, 8-bit.", category |-> "wavetable", tags |-> <<"wavetable", "c64", "sid", "commodore">>]>>,
     <<"wt_saw", [description |-> "Wavetable sawtooth. Band-limited saw wave. Classic synth, aliasing-free.", category |-> "wavetable", tags |-> <<"wavetable", "sawtooth", "band-limited", "classic">>]>>,
     <<"wt_square", [description |-> "Wavetable square. Band-limited square wave. Hollow, punchy.", category |-> "wavetable", tags |-> <<"wavetable", "square", "band-limited", "hollow">>]>>,
     <<"wt_triangle", [description |-> "Wavetable triangle. Band-limited triangle wave. Soft, mellow.", category |-> "wavetable", tags |-> <<"wavetable", "triangle", "band-limited", "mellow">>]>>,
     <<"wt_sine", [description |-> "Wavetable sine. Pure sine as wavetable. Pure, fundamental, sub.", category |-> "wavetable", tags |-> <<"wavetable", "sine", "pure", "fundamental">>]>>
  >>

(***************************************************************************)
(* Python string operations used by the two scripts.                       *)
(***************************************************************************)
\* sep.join(parts)
RECURSIVE StrJoin(_, _)
StrJoin(sep, parts) ==
  IF parts = <<>> THEN ""
  ELSE IF Len(parts) = 1 THEN parts[1]
  ELSE parts[1] \o sep \o StrJoin(sep, Tail(parts))

UpperCase == "ABCDEFGHIJKLMNOPQRSTUVWXYZ"
LowerCase == "abcdefghijklmnopqrstuvwxyz"

LowerChar(c) ==
  IF \E i \in 1..Len(UpperCase) : SubSeq(UpperCase, i, i) = c
  THEN LET i == CHOOSE j \in 1..Len(UpperCase) : SubSeq(UpperCase, j, j) = c
       IN  SubSeq(LowerCase, i, i)
  ELSE c

\* s.lower() (the table keys are ASCII)
RECURSIVE StrLower(_)
StrLower(s) ==
  IF s = "" THEN "" ELSE LowerChar(SubSeq(s, 1, 1)) \o StrLower(Tail(s))

(***************************************************************************)
(* json.dump / json.load.  A file holds a JSON document together with the  *)
(* layout it was written in (indent=2 by stage 1, compact by stage 2);     *)
(* loading keeps the document and forgets the layout.  Lists of dicts of   *)
(* str, list of str and list of float survive the round trip unchanged.    *)
(***************************************************************************)
NoFile == [kind |-> "absent"]
\* A file whose content json.load cannot parse.
Unparseable == [kind |-> "text"]
Compact == "compact"
Indented == "indent=2"
JsonDump(obj, layout) == [kind |-> "json", layout |-> layout, doc |-> obj]
JsonLoad(file) == file.doc

CatalogPath == "sound_catalog.json"
OutputPath == "sound_catalog_with_embeddings.json"
Paths == {CatalogPath, OutputPath}

(***************************************************************************)
(* Stage 1: build_catalog.  One operator per record literal, one per loop. *)
(***************************************************************************)
GmRecord(name, data) ==
  [id |-> name, name |-> name, description |-> data.description,
   source |-> "soundfonts", category |-> data.category,
   tags |-> data.tags, example |-> data.example]

\* A variant that copies only what the table entry holds: the dirt-samples
\* entries carry no example.
DirtRecordTableFields(name, data) ==
  [id |-> name, name |-> name, description |-> data.description,
   source |-> "dirt-samples", category |-> data.category,
   tags |-> data.tags]

DirtRecord(name, data) ==
  [id |-> name, name |-> name, description |-> data.description,
   source |-> "dirt-samples", category |-> data.category,
   tags |-> data.tags, example |-> "s(\"" \o name \o "\")"]

BuiltinRecord(name, data) ==
  [id |-> name, name |-> name, description |-> data.description,
   source |-> "builtin", category |-> data.category,
   tags |-> data.tags, example |-> data.example]

kit_sounds ==
  <<"bd", "sd", "hh", "oh", "cp", "lt", "mt", "ht", "cy", "cb", "rs", "cr">>

\* A variant that uses the machine name as it is for the id.
DrumRecordRawId(machine_name, data) ==
  [id |-> machine_name, name |-> machine_name,
   description |->
     data.description \o " Kit includes: " \o StrJoin(", ", kit_sounds) \o ".",
   source |-> "drum-machines", category |-> "drum_machine",
   tags |-> data.tags \o <<"drum-machine", "kit">>,
   example |-> "s(\"bd sd hh hh\").bank(\"" \o machine_name \o "\")"]

\* A variant that joins the kit listing with blanks instead of commas.
DrumRecordBlankJoined(machine_name, data) ==
  [id |-> StrLower(machine_name), name |-> machine_name,
   description |->
     data.description \o " Kit includes: " \o StrJoin(" ", kit_sounds) \o ".",
   source |-> "drum-machines", category |-> "drum_machine",
   tags |-> data.tags \o <<"drum-machine", "kit">>,
   example |-> "s(\"bd sd hh hh\").bank(\"" \o machine_name \o "\")"]

\* A variant that appends the kit pieces to the tags as well.
DrumRecordKitTags(machine_name, data) ==
  [id |-> StrLower(machine_name), name |-> machine_name,
   description |->
     data.description \o " Kit includes: " \o StrJoin(", ", kit_sounds) \o ".",
   source |-> "drum-machines", category |-> "drum_machine",
   tags |-> data.tags \o kit_sounds,
   example |-> "s(\"bd sd hh hh\").bank(\"" \o machine_name \o "\")"]

DrumRecord(machine_name, data) ==
  [id |-> StrLower(machine_name), name |-> machine_name,
   description |->
     data.description \o " Kit includes: " \o StrJoin(", ", kit_sounds) \o ".",
   source |-> "drum-machines", category |-> "drum_machine",
   tags |-> data.tags \o <<"drum-machine", "kit">>,
   example |-> "s(\"bd sd hh hh\").bank(\"" \o machine_name \o "\")"]

VcslRecord(name, data) ==
  [id |-> "vcsl_" \o name, name |-> name, description |-> data.description,
   source |-> "vcsl", category |-> data.category,
   tags |-> data.tags \o <<"vcsl", "acoustic", "sample-library">>,
   example |-> "note(\"c4 e4 g4\").s(\"" \o name \o "\")"]

\* A variant that copies the entry's tags unchanged.
WavetableRecordPlainTags(name, data) ==
  [id |-> name, name |-> name, description |-> data.description,
   source |-> "wavetables", category |-> data.category,
   tags |-> data.tags,
   example |-> "note(\"c4 e4 g4\").s(\"" \o name \o "\").clip(2)"]

WavetableRecord(name, data) ==
  [id |-> name, name |-> name, description |-> data.description,
   source |-> "wavetables", category |-> data.category,
   tags |-> data.tags \o <<"looping", "synthesis">>,
   example |-> "note(\"c4 e4 g4\").s(\"" \o name \o "\").clip(2)"]

\* for name, data in table.items(): sounds.append(...)
AddGmSoundfonts(s) ==
  s \o [i \in 1..Len(gm_soundfonts) |->
          GmRecord(gm_soundfonts[i][1], gm_soundfonts[i][2])]
AddDirtSamples(s) ==
  s \o [i \in 1..Len(dirt_samples) |->
          DirtRecord(dirt_samples[i][1], dirt_samples[i][2])]
\* A variant that puts the builtin synths at the head of the list.
AddBuiltinSynthsFirst(s) ==
  [i \in 1..Len(builtin_synths) |->
     BuiltinRecord(builtin_synths[i][1], builtin_synths[i][2])] \o s

\* A variant that skips an entry whose id the list already holds.
AddBuiltinSynthsUniqueIds(s) ==
  s \o SelectSeq([i \in 1..Len(builtin_synths) |->
                    BuiltinRecord(builtin_synths[i][1], builtin_synths[i][2])],
                 LAMBDA r : \A j \in 1..Len(s) : s[j].id # r.id)
AddBuiltinSynths(s) ==
  s \o [i \in 1..Len(builtin_synths) |->
          BuiltinRecord(builtin_synths[i][1], builtin_synths[i][2])]
AddDrumMachines(s) ==
  s \o [i \in 1..Len(drum_machines) |->
          DrumRecord(drum_machines[i][1], drum_machines[i][2])]
AddVcslInstruments(s) ==
  s \o [i \in 1..Len(vcsl_instruments) |->
          VcslRecord(vcsl_instruments[i][1], vcsl_instruments[i][2])]
AddWavetables(s) ==
  s \o [i \in 1..Len(wavetables) |->
          WavetableRecord(wavetables[i][1], wavetables[i][2])]

\* The value build_catalog() returns.
build_catalog ==
  AddWavetables(AddVcslInstruments(AddDrumMachines(
    AddBuiltinSynths(AddDirtSamples(AddGmSoundfonts(<<>>))))))

(***************************************************************************)
(* Stage 2: generate_embeddings.py.                                        *)
(***************************************************************************)
\* What importing a library and constructing its model can do in one call
\* of load_bge_m3: "ok"; "missing", the import raises ImportError; "broken",
\* the import succeeds and the constructor raises another error.
LibStates == {"ok", "missing", "broken"}

NoModel == [lib |-> "none"]

\* A variant that falls back on any exception of the first library.
load_bge_m3_except_all(flag_embedding, sentence_transformers) ==
  IF flag_embedding = "ok"
  THEN [raised |-> "none", backend |-> "flagembedding",
        tried |-> <<"FlagEmbedding">>,
        model |-> [lib |-> "FlagEmbedding", name |-> "BAAI/bge-m3",
                   use_fp16 |-> TRUE]]
  ELSE IF sentence_transformers = "ok"
  THEN [raised |-> "none", backend |-> "sentence-transformers",
        tried |-> <<"FlagEmbedding", "sentence_transformers">>,
        model |-> [lib |-> "SentenceTransformer", name |-> "BAAI/bge-m3",
                   use_fp16 |-> FALSE]]
  ELSE IF sentence_transformers = "missing"
  THEN [raised |-> "ImportError", backend |-> "none", model |-> NoModel,
        tried |-> <<"FlagEmbedding", "sentence_transformers">>]
  ELSE [raised |-> "LoadError", backend |-> "none", model |-> NoModel,
        tried |-> <<"FlagEmbedding", "sentence_transformers">>]

\* A variant that prefers sentence-transformers.
load_bge_m3_secondary_first(flag_embedding, sentence_transformers) ==
  IF sentence_transformers = "ok"
  THEN [raised |-> "none", backend |-> "sentence-transformers",
        tried |-> <<"sentence_transformers">>,
        model |-> [lib |-> "SentenceTransformer", name |-> "BAAI/bge-m3",
                   use_fp16 |-> FALSE]]
  ELSE IF flag_embedding = "ok"
  THEN [raised |-> "none", backend |-> "flagembedding",
        tried |-> <<"sentence_transformers", "FlagEmbedding">>,
        model |-> [lib |-> "FlagEmbedding", name |-> "BAAI/bge-m3",
                   use_fp16 |-> TRUE]]
  ELSE [raised |-> "ImportError", backend |-> "none", model |-> NoModel,
        tried |-> <<"sentence_transformers", "FlagEmbedding">>]

load_bge_m3(flag_embedding, sentence_transformers) ==
  IF flag_embedding = "ok"
  THEN [raised |-> "none", backend |-> "flagembedding",
        tried |-> <<"FlagEmbedding">>,
        model |-> [lib |-> "FlagEmbedding", name |-> "BAAI/bge-m3",
                   use_fp16 |-> TRUE]]
  ELSE IF flag_embedding = "missing"
  THEN IF sentence_transformers = "ok"
       THEN [raised |-> "none", backend |-> "sentence-transformers",
             tried |-> <<"FlagEmbedding", "sentence_transformers">>,
             model |-> [lib |-> "SentenceTransformer", name |-> "BAAI/bge-m3",
                        use_fp16 |-> FALSE]]
       ELSE IF sentence_transformers = "missing"
       THEN [raised |-> "ImportError", backend |-> "none", model |-> NoModel,
             tried |-> <<"FlagEmbedding", "sentence_transformers">>]
       ELSE [raised |-> "LoadError", backend |-> "none", model |-> NoModel,
             tried |-> <<"FlagEmbedding", "sentence_transformers">>]
  ELSE [raised |-> "LoadError", backend |-> "none", model |-> NoModel,
        tried |-> <<"FlagEmbedding">>]

\* What a call of load_bge_m3 looked like, for the log of calls.
LoadCall(flag_embedding, sentence_transformers) ==
  LET r == load_bge_m3(flag_embedding, sentence_transformers) IN
    [call |-> "load_bge_m3", flag_embedding |-> flag_embedding,
     sentence_transformers |-> sentence_transformers,
     tried |-> r.tried, raised |-> r.raised, backend |-> r.backend]

\* The library's encode.  The pretrained model is a fixed function from a
\* text to ModelDim numbers; the two libraries compute in different
\* precision, so their numbers differ.  The code trusts the library to
\* return one row per text: `surplus` is how many rows it returns beyond
\* that (-1: the last row is missing; 1: one row too many).
Surplus == {-1, 0, 1}

Vec(model, text) ==
  [d \in 1..ModelDim |-> Len(text) * d + (IF model.use_fp16 THEN 0 ELSE 1)]

Row(model, text) ==
  [dtype |-> IF model.use_fp16 THEN "float16" ELSE "float32",
   data |-> Vec(model, text)]

model_encode(model, texts, surplus) ==
  [j \in 1..(Len(texts) + surplus) |->
     IF j <= Len(texts) THEN Row(model, texts[j]) ELSE Row(model, "")]

\* ndarray.tolist()
tolist(emb) == emb.data

\* The keyword arguments of the two model.encode calls.
encode_kwargs_flagembedding ==
  [batch_size |-> 32, max_length |-> 512, return_dense |-> TRUE,
   return_sparse |-> FALSE, return_colbert_vecs |-> FALSE]

encode_kwargs_sentence_transformers ==
  [batch_size |-> 32, show_progress_bar |-> TRUE,
   normalize_embeddings |-> TRUE]

\* The logged call is a load_bge_m3 call that returned a model.
Loaded(c) == c.call = "load_bge_m3" /\ c.raised = "none"

\* What a call of model.encode looked like, for the log of calls.
EncodeCall(bk, txts) ==
  [call |-> "encode", backend |-> bk, texts |-> Len(txts),
   kwargs |-> IF bk = "flagembedding" THEN encode_kwargs_flagembedding
              ELSE encode_kwargs_sentence_transformers]

\* A variant that takes the multi-vector (ColBERT) output, which holds one
\* vector per token of a text, instead of the dense one.
generate_embeddings_flagembedding_colbert(model, texts, surplus) ==
  LET result == [dense_vecs |-> "None", lexical_weights |-> "None",
                 colbert_vecs |->
                   [j \in 1..(Len(texts) + surplus) |->
                      LET text == IF j <= Len(texts) THEN texts[j] ELSE ""
                      IN  [dtype |-> "float16",
                           data |-> [t \in 1..Len(text) |-> Vec(model, text)]]]]
      embeddings == result.colbert_vecs
  IN  [i \in 1..Len(embeddings) |-> tolist(embeddings[i])]

generate_embeddings_flagembedding(model, texts, surplus) ==
  LET result == [dense_vecs |-> model_encode(model, texts, surplus),
                 lexical_weights |-> "None", colbert_vecs |-> "None"]
      embeddings == result.dense_vecs
  IN  [i \in 1..Len(embeddings) |-> tolist(embeddings[i])]

generate_embeddings_sentence_transformers(model, texts, surplus) ==
  LET embeddings == model_encode(model, texts, surplus)
  IN  [i \in 1..Len(embeddings) |-> tolist(embeddings[i])]

\* The keys build_search_text reads, in the order it reads them.
SearchKeys == <<"name", "description", "category", "source", "tags">>

HasSearchKeys(sound) == \A i \in 1..Len(SearchKeys) : SearchKeys[i] \in DOMAIN sound

\* The key whose lookup raises in build_search_text(sound): the first one,
\* in the order of the reads, that the record lacks.
MissingKey(sound) ==
  SearchKeys[CHOOSE i \in 1..Len(SearchKeys) :
               /\ SearchKeys[i] \notin DOMAIN sound
               /\ \A j \in 1..(i - 1) : SearchKeys[j] \in DOMAIN sound]

\* The record at which texts = [build_search_text(sound) for sound in sounds]
\* raises: the first one that lacks a key.
FirstMalformed(snds) ==
  CHOOSE i \in 1..Len(snds) :
    /\ ~HasSearchKeys(snds[i])
    /\ \A j \in 1..(i - 1) : HasSearchKeys(snds[j])

\* A variant that puts the source before the category.
build_search_text_source_first(sound) ==
  LET parts == <<sound.name,
                 sound.description,
                 "Source: " \o sound.source,
                 "Category: " \o sound.category,
                 "Tags: " \o StrJoin(", ", sound.tags)>>
  IN  StrJoin(" | ", parts)

\* A variant that keeps the search text a record already has in front.
build_search_text_accumulating(sound) ==
  LET parts == <<sound.name,
                 sound.description,
                 "Category: " \o sound.category,
                 "Source: " \o sound.source,
                 "Tags: " \o StrJoin(", ", sound.tags)>>
  IN  IF "search_text" \in DOMAIN sound
      THEN sound.search_text \o " | " \o StrJoin(" | ", parts)
      ELSE StrJoin(" | ", parts)

build_search_text(sound) ==
  LET parts == <<sound.name,
                 sound.description,
                 "Category: " \o sound.category,
                 "Source: " \o sound.source,
                 "Tags: " \o StrJoin(", ", sound.tags)>>
  IN  StrJoin(" | ", parts)

\* A variant that stores the search text under "description".
AttachAsDescription(sound, emb, text) ==
  [k \in DOMAIN sound \cup {"embedding"} |->
     IF k = "embedding" THEN emb
     ELSE IF k = "description" THEN text
     ELSE sound[k]]

\* sound["embedding"] = emb; sound["search_text"] = text
Attach(sound, emb, text) ==
  [k \in DOMAIN sound \cup {"embedding", "search_text"} |->
     IF k = "embedding" THEN emb
     ELSE IF k = "search_text" THEN text
     ELSE sound[k]]

\* A variant that gives every record the first vector.
add_embeddings_first(snds, embs, txts) ==
  [raised |-> IF Len(embs) < Len(snds) THEN "IndexError" ELSE "none",
   sounds |-> [i \in 1..Len(snds) |->
                 IF i <= Len(embs) THEN Attach(snds[i], embs[1], txts[i])
                 ELSE snds[i]]]

\* A variant that stops at the shorter of the two lists, as zip does,
\* instead of raising.
add_embeddings_zip(snds, embs, txts) ==
  [raised |-> "none",
   sounds |-> [i \in 1..Len(snds) |->
                 IF i <= Len(embs) THEN Attach(snds[i], embs[i], txts[i])
                 ELSE snds[i]]]

\* The loop that adds embeddings to sounds.  embeddings[i] raises
\* IndexError at the first i past the end of embeddings; the records before
\* it have been changed in place by then.
\* A variant that refuses a result with a vector too many.
add_embeddings_checked(snds, embs, txts) ==
  [raised |-> IF Len(embs) < Len(snds) THEN "IndexError"
              ELSE IF Len(embs) > Len(snds) THEN "ValueError"
              ELSE "none",
   sounds |-> [i \in 1..Len(snds) |->
                 IF i <= Len(embs) THEN Attach(snds[i], embs[i], txts[i])
                 ELSE snds[i]]]

add_embeddings(snds, embs, txts) ==
  [raised |-> IF Len(embs) < Len(snds) THEN "IndexError" ELSE "none",
   sounds |-> [i \in 1..Len(snds) |->
                 IF i <= Len(embs) THEN Attach(snds[i], embs[i], txts[i])
                 ELSE snds[i]]]

\* _model_cache = {"model": None, "backend": None}
EmptyCache == [model |-> NoModel, backend |-> "none"]

\* No vector: what stands for the result of a call that raised.
NoVector == <<>>

\* A variant that loads the model on every call.
generate_embedding_reload(cache, text, fe, st, raises, surplus) ==
  LET r == load_bge_m3(fe, st)
      cache1 == IF r.raised = "none"
                THEN [model |-> r.model, backend |-> r.backend]
                ELSE cache
      calls1 == <<LoadCall(fe, st)>>
      embeddings ==
        IF cache1.backend = "flagembedding"
        THEN generate_embeddings_flagembedding(cache1.model, <<text>>, surplus)
        ELSE generate_embeddings_sentence_transformers(cache1.model, <<text>>,
                                                       surplus)
      calls2 == Append(calls1, EncodeCall(cache1.backend, <<text>>))
  IN  IF r.raised # "none"
      THEN [cache |-> cache1, raised |-> r.raised, value |-> NoVector,
            calls |-> calls1]
      ELSE IF raises
      THEN [cache |-> cache1, raised |-> "InferenceError", value |-> NoVector,
            calls |-> calls2]
      ELSE IF embeddings = <<>>
      THEN [cache |-> cache1, raised |-> "IndexError", value |-> NoVector,
            calls |-> calls2]
      ELSE [cache |-> cache1, raised |-> "none", value |-> embeddings[1],
            calls |-> calls2]

\* A variant that stores the tag of the library it tries before the load
\* has returned.
generate_embedding_tag_first(cache, text, fe, st, raises, surplus) ==
  LET must_load == cache.model = NoModel
      r == load_bge_m3(fe, st)
      load_failed == must_load /\ r.raised # "none"
      cache1 == IF must_load
                THEN [model |-> r.model,
                      backend |-> IF load_failed THEN "flagembedding"
                                  ELSE r.backend]
                ELSE cache
      calls1 == IF must_load
                THEN <<LoadCall(fe, st)>>
                ELSE <<>>
      embeddings ==
        IF cache1.backend = "flagembedding"
        THEN generate_embeddings_flagembedding(cache1.model, <<text>>, surplus)
        ELSE generate_embeddings_sentence_transformers(cache1.model, <<text>>,
                                                       surplus)
      calls2 == Append(calls1, EncodeCall(cache1.backend, <<text>>))
  IN  IF load_failed
      THEN [cache |-> cache1, raised |-> r.raised, value |-> NoVector,
            calls |-> calls1]
      ELSE IF raises
      THEN [cache |-> cache1, raised |-> "InferenceError", value |-> NoVector,
            calls |-> calls2]
      ELSE IF embeddings = <<>>
      THEN [cache |-> cache1, raised |-> "IndexError", value |-> NoVector,
            calls |-> calls2]
      ELSE [cache |-> cache1, raised |-> "none", value |-> embeddings[1],
            calls |-> calls2]

\* A variant that empties the cache when model.encode raises.
generate_embedding_drop_on_error(cache, text, fe, st, raises, surplus) ==
  LET must_load == cache.model = NoModel
      r == load_bge_m3(fe, st)
      load_failed == must_load /\ r.raised # "none"
      cache1 == IF must_load /\ ~load_failed
                THEN [model |-> r.model, backend |-> r.backend]
                ELSE cache
      calls1 == IF must_load
                THEN <<LoadCall(fe, st)>>
                ELSE <<>>
      embeddings ==
        IF cache1.backend = "flagembedding"
        THEN generate_embeddings_flagembedding(cache1.model, <<text>>, surplus)
        ELSE generate_embeddings_sentence_transformers(cache1.model, <<text>>,
                                                       surplus)
      calls2 == Append(calls1, EncodeCall(cache1.backend, <<text>>))
  IN  IF load_failed
      THEN [cache |-> cache1, raised |-> r.raised, value |-> NoVector,
            calls |-> calls1]
      ELSE IF raises
      THEN [cache |-> EmptyCache, raised |-> "InferenceError", value |-> NoVector,
            calls |-> calls2]
      ELSE IF embeddings = <<>>
      THEN [cache |-> cache1, raised |-> "IndexError", value |-> NoVector,
            calls |-> calls2]
      ELSE [cache |-> cache1, raised |-> "none", value |-> embeddings[1],
            calls |-> calls2]

\* generate_embedding(text) with the cache as it finds it: the cache as it
\* leaves it, the exception it raises or the vector it returns, and the calls
\* it made.  fe and st are the states load_bge_m3 finds the two
\* libraries in, raises and surplus how model.encode behaves.
generate_embedding(cache, text, fe, st, raises, surplus) ==
  LET must_load == cache.model = NoModel
      r == load_bge_m3(fe, st)
      load_failed == must_load /\ r.raised # "none"
      cache1 == IF must_load /\ ~load_failed
                THEN [model |-> r.model, backend |-> r.backend]
                ELSE cache
      calls1 == IF must_load
                THEN <<LoadCall(fe, st)>>
                ELSE <<>>
      embeddings ==
        IF cache1.backend = "flagembedding"
        THEN generate_embeddings_flagembedding(cache1.model, <<text>>, surplus)
        ELSE generate_embeddings_sentence_transformers(cache1.model, <<text>>,
                                                       surplus)
      calls2 == Append(calls1, EncodeCall(cache1.backend, <<text>>))
  IN  IF load_failed
      THEN [cache |-> cache1, raised |-> r.raised, value |-> NoVector,
            calls |-> calls1]
      ELSE IF raises
      THEN [cache |-> cache1, raised |-> "InferenceError", value |-> NoVector,
            calls |-> calls2]
      ELSE IF embeddings = <<>>
      THEN [cache |-> cache1, raised |-> "IndexError", value |-> NoVector,
            calls |-> calls2]
      ELSE [cache |-> cache1, raised |-> "none", value |-> embeddings[1],
            calls |-> calls2]

\* The query texts generate_embedding is called with.
Queries == {"kick", "warm pad"}

(***************************************************************************)
(* Catalog files a run of stage 2 may find before stage 1 has ever run.    *)
(***************************************************************************)
SampleCatalog ==
  << [id |-> "sine", name |-> "sine", description |-> "pure tone",
      source |-> "builtin", category |-> "oscillator", tags |-> <<"pure">>,
      example |-> "s(\"sine\")"],
     DirtRecord(dirt_samples[2][1], dirt_samples[2][2]),
     [id |-> "click", name |-> "click", description |-> "Short click.",
      source |-> "custom", category |-> "sfx", tags |-> <<>>,
      example |-> "s(\"click\")"],
     DrumRecord(drum_machines[1][1], drum_machines[1][2]) >>

\* A catalog whose second record lacks a field build_search_text reads.
MalformedCatalog ==
  << SampleCatalog[1],
     [id |-> "nocat", name |-> "nocat", description |-> "No category.",
      source |-> "custom", tags |-> <<"broken">>, example |-> "s(\"nocat\")"] >>

\* A catalog whose records lack fields build_search_text never reads.
IncompleteCatalog ==
  << [name |-> "noid", description |-> "No id.", source |-> "custom",
      category |-> "sfx", tags |-> <<"broken">>, example |-> "s(\"noid\")"],
     [id |-> "noexample", name |-> "noexample", description |-> "No example.",
      source |-> "custom", category |-> "sfx", tags |-> <<>>] >>

InitialCatalogFiles ==
  {NoFile, Unparseable, JsonDump(MalformedCatalog, Indented),
   JsonDump(IncompleteCatalog, Indented)} \cup
  {JsonDump(SubSeq(SampleCatalog, 1, n), Indented) :
     n \in 0..(IF MaxInputLen < Len(SampleCatalog)
               THEN MaxInputLen ELSE Len(SampleCatalog))}

(***************************************************************************)
(* State.                                                                  *)
(*   files         the content of each path                                *)
(*   runs          operations started so far: runs of build_catalog.py,    *)
(*                 calls of main and of generate_embedding                 *)
(*   pc1, bc_sounds   stage 1: position of build_catalog/main, its list    *)
(*   dumps         history: the documents stage 1 has written, in order    *)
(*   pc            stage 2: position of main or of generate_embedding      *)
(*   catalog_path, sounds, model, backend, texts, embeddings               *)
(*                 stage 2: main's locals                                  *)
(*   error         the exception that ended the stage-2 operation, or      *)
(*                 "none"                                                  *)
(*   input         history: the document main loaded, before the loop      *)
(*                 changed its records in place                            *)
(*   model_cache   the module-level _model_cache of the stage-2 process    *)
(*   log           history: the load_bge_m3 and model.encode calls of the  *)
(*                 stage-2 operation under way, in order                   *)
(*   result        what generate_embedding returned                        *)
(*   loads         history: how many load_bge_m3 calls of the stage-2      *)
(*                 process have returned a model                           *)
(***************************************************************************)
VARIABLES files, runs, pc1, bc_sounds, dumps,
          pc, catalog_path, sounds, model, backend, texts, embeddings,
          error, input, model_cache, log, result, loads

stage1_vars == <<pc1, bc_sounds, dumps>>
locals == <<catalog_path, sounds, model, backend, texts, embeddings>>
stage2_vars == <<pc, locals, error, input, model_cache, log, result, loads>>
vars == <<files, runs, stage1_vars, stage2_vars>>


Init ==
  /\ files \in {[p \in Paths |-> IF p = CatalogPath THEN f ELSE NoFile] :
                  f \in InitialCatalogFiles}
  /\ runs = 0
  /\ pc1 = "idle"
  /\ bc_sounds = <<>>
  /\ dumps = <<>>
  /\ pc = "idle"
  /\ catalog_path = "none"
  /\ sounds = <<>>
  /\ model = NoModel
  /\ backend = "none"
  /\ texts = <<>>
  /\ embeddings = <<>>
  /\ error = "none"
  /\ input = <<>>
  /\ model_cache = EmptyCache
  /\ log = <<>>
  /\ result = NoVector
  /\ loads = 0

(***************************************************************************)
(* Stage 1: main of build_catalog.py.                                      *)
(***************************************************************************)
\* A variant that starts from the records of the catalog file it finds.
Stage1StartFromFile ==
  /\ pc1 = "idle" /\ pc = "idle" /\ runs < MaxRuns
  /\ runs' = runs + 1
  /\ pc1' = "gm_soundfonts"
  /\ bc_sounds' = IF files[CatalogPath] \in {NoFile, Unparseable} THEN <<>>
                  ELSE JsonLoad(files[CatalogPath])
  /\ UNCHANGED <<files, dumps, stage2_vars>>

Stage1Start ==
  /\ pc1 = "idle" /\ pc = "idle" /\ runs < MaxRuns
  /\ runs' = runs + 1
  /\ pc1' = "gm_soundfonts"
  /\ bc_sounds' = <<>>
  /\ UNCHANGED <<files, dumps, stage2_vars>>

\* One of build_catalog's six loops: `added` is the list after it.
Stage1Loop(at, added, next) ==
  /\ pc1 = at
  /\ bc_sounds' = added
  /\ pc1' = next
  /\ UNCHANGED <<files, runs, dumps, stage2_vars>>

\* sounds = build_catalog(); json.dump(sounds, f, indent=2)
Stage1Dump ==
  /\ pc1 = "return"
  /\ files' = [files EXCEPT ![CatalogPath] = JsonDump(bc_sounds, Indented)]
  /\ dumps' = Append(dumps, JsonDump(bc_sounds, Indented))
  /\ pc1' = "done"
  /\ UNCHANGED <<runs, bc_sounds, stage2_vars>>

\* The script ends and its process with it.
Stage1Exit ==
  /\ pc1 = "done"
  /\ pc1' = "idle"
  /\ bc_sounds' = <<>>
  /\ UNCHANGED <<files, runs, dumps, stage2_vars>>

(***************************************************************************)
(* Stage 2: main of generate_embeddings.py, called with --catalog cp and   *)
(* the default output path.                                                *)
(***************************************************************************)
Raise(e) ==
  /\ pc' = "error"
  /\ error' = e

MainStart(cp) ==
  /\ pc = "idle" /\ pc1 = "idle" /\ runs < MaxRuns
  /\ runs' = runs + 1
  /\ pc' = "open"
  /\ catalog_path' = cp
  /\ UNCHANGED <<files, stage1_vars, sounds, model, backend, texts,
                 embeddings, error, input, model_cache, log, result, loads>>

\* A variant that calls load_bge_m3 before it opens the catalog.
LoadCatalogAfterModel ==
  /\ pc = "open"
  /\ \E fe \in LibStates, st \in LibStates :
       /\ log' = Append(log, LoadCall(fe, st))
       /\ loads' = loads + (IF load_bge_m3(fe, st).raised = "none" THEN 1 ELSE 0)
  /\ IF files[catalog_path] = NoFile
     THEN /\ Raise("FileNotFoundError")
          /\ UNCHANGED <<sounds, input>>
     ELSE IF files[catalog_path] = Unparseable
     THEN /\ Raise("JSONDecodeError")
          /\ UNCHANGED <<sounds, input>>
     ELSE /\ sounds' = JsonLoad(files[catalog_path])
          /\ input' = JsonLoad(files[catalog_path])
          /\ pc' = "load"
          /\ UNCHANGED error
  /\ UNCHANGED <<files, runs, stage1_vars, catalog_path, model, backend,
                 texts, embeddings, model_cache, result>>

\* with open(catalog_path) as f: sounds = json.load(f)
LoadCatalog ==
  /\ pc = "open"
  /\ IF files[catalog_path] = NoFile
     THEN /\ Raise("FileNotFoundError")
          /\ UNCHANGED <<sounds, input>>
     ELSE IF files[catalog_path] = Unparseable
     THEN /\ Raise("JSONDecodeError")
          /\ UNCHANGED <<sounds, input>>
     ELSE /\ sounds' = JsonLoad(files[catalog_path])
          /\ input' = JsonLoad(files[catalog_path])
          /\ pc' = "load"
          /\ UNCHANGED error
  /\ UNCHANGED <<files, runs, stage1_vars, catalog_path, model, backend,
                 texts, embeddings, model_cache, log, result, loads>>

\* A variant that writes an empty document when the load fails.
LoadModelEmptyOutput ==
  /\ pc = "load"
  /\ \E fe \in LibStates, st \in LibStates :
       LET r == load_bge_m3(fe, st) IN
         /\ log' = Append(log, LoadCall(fe, st))
         /\ IF r.raised # "none"
            THEN /\ Raise(r.raised)
                 /\ files' = [files EXCEPT ![OutputPath] = JsonDump(<<>>, Compact)]
                 /\ UNCHANGED <<model, backend>>
            ELSE /\ model' = r.model
                 /\ backend' = r.backend
                 /\ pc' = "texts"
                 /\ UNCHANGED <<error, files>>
         /\ loads' = loads + (IF r.raised = "none" THEN 1 ELSE 0)
  /\ UNCHANGED <<runs, stage1_vars, catalog_path, sounds, texts,
                 embeddings, input, model_cache, result>>

\* model, backend = load_bge_m3()
LoadModel ==
  /\ pc = "load"
  /\ \E fe \in LibStates, st \in LibStates :
       LET r == load_bge_m3(fe, st) IN
         /\ log' = Append(log, LoadCall(fe, st))
         /\ IF r.raised # "none"
            THEN /\ Raise(r.raised)
                 /\ UNCHANGED <<model, backend>>
            ELSE /\ model' = r.model
                 /\ backend' = r.backend
                 /\ pc' = "texts"
                 /\ UNCHANGED error
         /\ loads' = loads + (IF r.raised = "none" THEN 1 ELSE 0)
  /\ UNCHANGED <<files, runs, stage1_vars, catalog_path, sounds, texts,
                 embeddings, input, model_cache, result>>

\* A variant that looks up all seven fields of every record first.
BuildTextsValidating ==
  /\ pc = "texts"
  /\ IF \A i \in 1..Len(sounds) :
          {"id", "name", "description", "source", "category", "tags",
           "example"} \subseteq DOMAIN sounds[i]
     THEN /\ texts' = [i \in 1..Len(sounds) |-> build_search_text(sounds[i])]
          /\ pc' = "sample"
          /\ UNCHANGED error
     ELSE /\ Raise("KeyError")
          /\ UNCHANGED texts
  /\ UNCHANGED <<files, runs, stage1_vars, catalog_path, sounds, model,
                 backend, embeddings, input, model_cache, log, result, loads>>

\* texts = [build_search_text(sound) for sound in sounds]
BuildTexts ==
  /\ pc = "texts"
  /\ IF \A i \in 1..Len(sounds) : HasSearchKeys(sounds[i])
     THEN /\ texts' = [i \in 1..Len(sounds) |-> build_search_text(sounds[i])]
          /\ pc' = "sample"
          /\ UNCHANGED error
     ELSE /\ Raise("KeyError: " \o MissingKey(sounds[FirstMalformed(sounds)]))
          /\ UNCHANGED texts
  /\ UNCHANGED <<files, runs, stage1_vars, catalog_path, sounds, model,
                 backend, embeddings, input, model_cache, log, result, loads>>

\* A variant that prints no sample when there is no text.
ShowSampleIfAny ==
  /\ pc = "sample"
  /\ pc' = "encode"
  /\ UNCHANGED error
  /\ UNCHANGED <<files, runs, stage1_vars, locals, input, model_cache, log,
                 result, loads>>

\* print(f"...{texts[0][:200]}...")
ShowSample ==
  /\ pc = "sample"
  /\ IF texts = <<>>
     THEN Raise("IndexError")
     ELSE pc' = "encode" /\ UNCHANGED error
  /\ UNCHANGED <<files, runs, stage1_vars, locals, input, model_cache, log,
                 result, loads>>

\* A variant that calls model.encode again when it raises.
GenerateEmbeddingsRetry ==
  /\ pc = "encode"
  /\ log' = Append(log, EncodeCall(backend, texts))
  /\ \/ UNCHANGED <<pc, error, embeddings>>
     \/ \E surplus \in Surplus :
          /\ embeddings' =
               IF backend = "flagembedding"
               THEN generate_embeddings_flagembedding(model, texts, surplus)
               ELSE generate_embeddings_sentence_transformers(model, texts, surplus)
          /\ pc' = "dimension"
          /\ UNCHANGED error
  /\ UNCHANGED <<files, runs, stage1_vars, catalog_path, sounds, model,
                 backend, texts, input, model_cache, result, loads>>

\* embeddings = generate_embeddings_<backend>(model, texts)
GenerateEmbeddings ==
  /\ pc = "encode"
  /\ log' = Append(log, EncodeCall(backend, texts))
  /\ \/ /\ Raise("InferenceError")
        /\ UNCHANGED embeddings
     \/ \E surplus \in Surplus :
          /\ embeddings' =
               IF backend = "flagembedding"
               THEN generate_embeddings_flagembedding(model, texts, surplus)
               ELSE generate_embeddings_sentence_transformers(model, texts, surplus)
          /\ pc' = "dimension"
          /\ UNCHANGED error
  /\ UNCHANGED <<files, runs, stage1_vars, catalog_path, sounds, model,
                 backend, texts, input, model_cache, result, loads>>

\* print(f"Embedding dimension: {len(embeddings[0])}")
ShowDimension ==
  /\ pc = "dimension"
  /\ IF embeddings = <<>>
     THEN Raise("IndexError")
     ELSE pc' = "attach" /\ UNCHANGED error
  /\ UNCHANGED <<files, runs, stage1_vars, locals, input, model_cache, log,
                 result, loads>>

\* for i, sound in enumerate(sounds): ...
AddEmbeddings ==
  /\ pc = "attach"
  /\ LET r == add_embeddings(sounds, embeddings, texts) IN
       /\ sounds' = r.sounds
       /\ IF r.raised # "none"
          THEN Raise(r.raised)
          ELSE pc' = "save" /\ UNCHANGED error
  /\ UNCHANGED <<files, runs, stage1_vars, catalog_path, model, backend,
                 texts, embeddings, input, model_cache, log, result, loads>>

\* with open(output_path, "w") as f: json.dump(sounds, f)
SaveOutput ==
  /\ pc = "save"
  /\ files' = [files EXCEPT ![OutputPath] = JsonDump(sounds, Compact)]
  /\ pc' = "done"
  /\ UNCHANGED <<runs, stage1_vars, locals, error, input, model_cache, log,
                 result, loads>>

\* main returns or its exception ends the call; the locals are gone.
MainExit ==
  /\ pc \in {"done", "error"}
  /\ pc' = "idle"
  /\ catalog_path' = "none"
  /\ sounds' = <<>>
  /\ model' = NoModel
  /\ backend' = "none"
  /\ texts' = <<>>
  /\ embeddings' = <<>>
  /\ error' = "none"
  /\ input' = <<>>
  /\ log' = <<>>
  /\ UNCHANGED <<files, runs, stage1_vars, model_cache, result, loads>>

(***************************************************************************)
(* Stage 2: generate_embedding(text), called in the same process.          *)
(***************************************************************************)
GenerateEmbedding(text) ==
  /\ pc = "idle" /\ pc1 = "idle" /\ runs < MaxRuns
  /\ runs' = runs + 1
  /\ \E fe \in LibStates, st \in LibStates, raises \in BOOLEAN,
        surplus \in Surplus :
       LET r == generate_embedding(model_cache, text, fe, st, raises, surplus)
       IN  /\ model_cache' = r.cache
           /\ error' = r.raised
           /\ result' = r.value
           /\ log' = r.calls
           /\ loads' = loads + Len(SelectSeq(r.calls, Loaded))
  /\ pc' = "returned"
  /\ UNCHANGED <<files, stage1_vars, locals, input>>

\* The caller has the vector or the exception.
GenerateEmbeddingReturn ==
  /\ pc = "returned"
  /\ pc' = "idle"
  /\ error' = "none"
  /\ result' = NoVector
  /\ log' = <<>>
  /\ UNCHANGED <<files, runs, stage1_vars, locals, input, model_cache, loads>>

Next ==
  \/ Stage1Start
  \/ Stage1Loop("gm_soundfonts", AddGmSoundfonts(bc_sounds), "dirt_samples")
  \/ Stage1Loop("dirt_samples", AddDirtSamples(bc_sounds), "builtin_synths")
  \/ Stage1Loop("builtin_synths", AddBuiltinSynths(bc_sounds), "drum_machines")
  \/ Stage1Loop("drum_machines", AddDrumMachines(bc_sounds), "vcsl_instruments")
  \/ Stage1Loop("vcsl_instruments", AddVcslInstruments(bc_sounds), "wavetables")
  \/ Stage1Loop("wavetables", AddWavetables(bc_sounds), "return")
  \/ Stage1Dump
  \/ Stage1Exit
  \/ \E cp \in Paths : MainStart(cp)
  \/ LoadCatalog
  \/ LoadModel
  \/ BuildTexts
  \/ ShowSample
  \/ GenerateEmbeddings
  \/ ShowDimension
  \/ AddEmbeddings
  \/ SaveOutput
  \/ MainExit
  \/ \E text \in Queries : GenerateEmbedding(text)
  \/ GenerateEmbeddingReturn

Spec == Init /\ [][Next]_vars


(***************************************************************************)
(* Properties of stage 1.  build_catalog has returned when pc1 = "return": *)
(* bc_sounds is then the list it returned.                                 *)
(***************************************************************************)
Returned == pc1 = "return"

\* The entries of all six tables, in the order of build_catalog's loops.
AllEntries ==
  gm_soundfonts \o dirt_samples \o builtin_synths \o drum_machines
    \o vcsl_instruments \o wavetables

\* s ends with suffix
EndsWith(s, suffix) ==
  /\ Len(s) >= Len(suffix)
  /\ SubSeq(s, Len(s) - Len(suffix) + 1, Len(s)) = suffix

\* The drum-machine records of the returned list.
DrumIndices == {i \in 1..Len(bc_sounds) : bc_sounds[i].source = "drum-machines"}

\* The drum_machines entry a drum-machine record was made from.
DrumEntryOf(r) ==
  drum_machines[CHOOSE k \in 1..Len(drum_machines) : drum_machines[k][1] = r.name]

\* C4: in the list build_catalog returns no two records have the same id.
C4_IdUnique ==
  Returned =>
    \A i \in 1..Len(bc_sounds) : \A j \in 1..Len(bc_sounds) :
      i # j => bc_sounds[i].id # bc_sounds[j].id

\* C5 as stated: the number of records build_catalog returns is the sum of
\* the entry counts of the five tables the spec names (builtin synths, dirt
\* samples, drum machines, VCSL instruments, wavetables).
C5_FiveTables ==
  Returned =>
    Len(bc_sounds) = Len(builtin_synths) + Len(dirt_samples)
                       + Len(drum_machines) + Len(vcsl_instruments)
                       + Len(wavetables)

\* C5 as amended: the number of records build_catalog returns is the sum of
\* the entry counts of its six tables (the GM soundfonts too), and the i-th
\* record is made from the i-th entry of the tables taken in loop order, so
\* every entry yields exactly one record and no record comes from elsewhere.
C5_SixTables ==
  Returned =>
    /\ Len(bc_sounds) = Len(gm_soundfonts) + Len(dirt_samples)
                          + Len(builtin_synths) + Len(drum_machines)
                          + Len(vcsl_instruments) + Len(wavetables)
    /\ \A i \in 1..Len(bc_sounds) : bc_sounds[i].name = AllEntries[i][1]

C5_Witness ==
  /\ Returned
  /\ \E i \in 1..Len(bc_sounds) : bc_sounds[i].source = "soundfonts"
  /\ \E i \in 1..Len(bc_sounds) : bc_sounds[i].source = "wavetables"

SoundEntryKeys ==
  {"id", "name", "description", "source", "category", "tags", "example"}

\* C8: every record build_catalog returns has exactly the seven fields id,
\* name, description, source, category, tags, example; the six strings are
\* not empty and tags is a non-empty sequence.
C8_FieldsNonEmpty ==
  Returned =>
    \A i \in 1..Len(bc_sounds) :
      /\ DOMAIN bc_sounds[i] = SoundEntryKeys
      /\ \A k \in SoundEntryKeys \ {"tags"} : bc_sounds[i][k] # ""
      /\ Len(bc_sounds[i].tags) > 0

C8_Witness ==
  /\ Returned
  /\ {bc_sounds[i].source : i \in 1..Len(bc_sounds)} =
       {"soundfonts", "dirt-samples", "builtin", "drum-machines", "vcsl",
        "wavetables"}

KitListing == " Kit includes: bd, sd, hh, oh, cp, lt, mt, ht, cy, cb, rs, cr."

\* C9: the description of every drum-machine record is the description of
\* its table entry followed by the kit listing, and so ends with the
\* listing: the twelve abbreviations bd ... cr in that order, separated by
\* commas.
C9_KitListing ==
  Returned =>
    \A i \in DrumIndices :
      /\ bc_sounds[i].description =
           DrumEntryOf(bc_sounds[i])[2].description \o KitListing
      /\ EndsWith(bc_sounds[i].description, KitListing)

C9_Witness ==
  /\ Returned
  /\ Cardinality(DrumIndices) = Len(drum_machines)
  /\ Len(drum_machines) > 0

\* C10 as stated: the tags of every drum-machine record are the tags of its
\* table entry followed by the twelve kit-piece abbreviations.
C10_KitTags ==
  Returned =>
    \A i \in DrumIndices :
      LET own == DrumEntryOf(bc_sounds[i])[2].tags
          tags == bc_sounds[i].tags
      IN  /\ Len(tags) >= Len(own) + Len(kit_sounds)
          /\ SubSeq(tags, 1, Len(own)) = own
          /\ SubSeq(tags, Len(own) + 1, Len(own) + Len(kit_sounds)) = kit_sounds

\* C10 as amended: the tags of every drum-machine record are the tags of
\* its table entry followed by the two tags "drum-machine" and "kit"; none
\* of the twelve kit-piece abbreviations is among the tags that were added.
C10_DrumTags ==
  Returned =>
    \A i \in DrumIndices :
      LET own == DrumEntryOf(bc_sounds[i])[2].tags
          tags == bc_sounds[i].tags
      IN  /\ tags = own \o <<"drum-machine", "kit">>
          /\ \A j \in (Len(own) + 1)..Len(tags) :
               \A k \in 1..Len(kit_sounds) : tags[j] # kit_sounds[k]

C10_Witness ==
  /\ Returned
  /\ \E i \in DrumIndices : Len(DrumEntryOf(bc_sounds[i])[2].tags) > 0


(***************************************************************************)
(* Properties of stage 2.  While main runs, `input` is the document it     *)
(* loaded; main has written its output when pc = "done".                   *)
(***************************************************************************)
Written == pc = "done"

\* The records of the output file.
Output == JsonLoad(files[OutputPath])

\* A record without the two fields stage 2 adds.
Strip(sound) ==
  [k \in DOMAIN sound \ {"embedding", "search_text"} |-> sound[k]]

\* A record cut down to the fields in `keys`.
Project(sound, keys) == [k \in DOMAIN sound \cap keys |-> sound[k]]

\* The tags with ", " between them, built from the last tag backwards.
RECURSIVE CommaSeparated(_)
CommaSeparated(tags) ==
  IF Len(tags) = 0 THEN ""
  ELSE IF Len(tags) = 1 THEN tags[1]
  ELSE CommaSeparated(SubSeq(tags, 1, Len(tags) - 1)) \o ", " \o tags[Len(tags)]

\* The search text the spec lays down for a record.
ExpectedText(sound) ==
  sound.name \o " | " \o sound.description
    \o " | Category: " \o sound.category
    \o " | Source: " \o sound.source
    \o " | Tags: " \o CommaSeparated(sound.tags)

SineText == "sine | pure tone | Category: oscillator | Source: builtin | Tags: pure"

\* C1: when stage 2 has run on the catalog stage 1 produced, the records of
\* its output without `embedding` and `search_text` are the stage-1 records:
\* as many, in the same order, each with the same seven fields.
C1_RoundTrip ==
  (Written /\ input = build_catalog) =>
    /\ Len(Output) = Len(build_catalog)
    /\ \A i \in 1..Len(build_catalog) : Strip(Output[i]) = build_catalog[i]

C1_Witness ==
  /\ Written
  /\ catalog_path = CatalogPath
  /\ input = build_catalog
  /\ Len(Output) > 0

\* C2: every search text main builds is name, description, "Category: " +
\* category, "Source: " + source, "Tags: " + the tags joined with ", ", in
\* that order with " | " between them; it is decided by those five fields of
\* the record alone; the record sine / pure tone / oscillator / builtin /
\* [pure] gives the text of the spec's scenario.
C2_SearchText ==
  \A i \in 1..Len(texts) :
    /\ texts[i] = ExpectedText(Project(input[i], {"name", "description",
                                "category", "source", "tags"}))
    /\ (/\ input[i].name = "sine" /\ input[i].description = "pure tone"
        /\ input[i].category = "oscillator" /\ input[i].source = "builtin"
        /\ input[i].tags = <<"pure">>) => texts[i] = SineText

C2_Witness ==
  /\ \E i \in 1..Len(texts) : texts[i] = SineText
  /\ \E i \in 1..Len(texts) : Len(input[i].tags) > 1
  /\ \E i \in 1..Len(texts) : "embedding" \in DOMAIN input[i]

\* C3: after the loop that adds the embeddings, the i-th record carries the
\* i-th vector the embedding call returned and the search text of the i-th
\* record loaded, for every i; the file written holds those records.
C3_Positional ==
  pc \in {"save", "done"} =>
    /\ Len(sounds) = Len(input)
    /\ \A i \in 1..Len(sounds) :
         /\ sounds[i].embedding = embeddings[i]
         /\ sounds[i].search_text = build_search_text(input[i])
    /\ Written => Output = sounds

C3_Witness ==
  /\ Written
  /\ Len(sounds) >= 2
  /\ embeddings[1] # embeddings[2]
  /\ Output[2].embedding = embeddings[2]

\* C6: the output file never holds a record without `embedding` or without
\* `search_text`, and right after main has written it, it holds one record
\* per record loaded.
C6_NoPartialOutput ==
  /\ files[OutputPath] # NoFile =>
       \A i \in 1..Len(Output) :
         {"embedding", "search_text"} \subseteq DOMAIN Output[i]
  /\ Written => Len(Output) = Len(input)

C6_Witness ==
  /\ Written
  /\ Len(input) >= 2
  /\ \A i \in 1..Len(input) : "embedding" \notin DOMAIN input[i]
  /\ \A i \in 1..Len(Output) : "embedding" \in DOMAIN Output[i]

\* C7: in the output file every record's embedding has the same length, the
\* output dimensionality of the model, whichever library loaded it.
C7_EmbeddingDim ==
  files[OutputPath] # NoFile =>
    \A i \in 1..Len(Output) : Len(Output[i].embedding) = ModelDim

C7_Witness ==
  /\ Written
  /\ backend = "sentence-transformers"
  /\ Len(Output) >= 2


(***************************************************************************)
(* More properties of stage 1.                                             *)
(***************************************************************************)
\* For each entry of AllEntries, the `source` value of the table it is in.
EntryTable ==
  [i \in 1..Len(gm_soundfonts) |-> "soundfonts"]
    \o [i \in 1..Len(dirt_samples) |-> "dirt-samples"]
    \o [i \in 1..Len(builtin_synths) |-> "builtin"]
    \o [i \in 1..Len(drum_machines) |-> "drum-machines"]
    \o [i \in 1..Len(vcsl_instruments) |-> "vcsl"]
    \o [i \in 1..Len(wavetables) |-> "wavetables"]

HasUpperCase(s) ==
  \E i \in 1..Len(s) : \E j \in 1..Len(UpperCase) :
    SubSeq(s, i, i) = SubSeq(UpperCase, j, j)

\* The id build_catalog gives the i-th entry.
ExpectedId(i) ==
  LET key == AllEntries[i][1] IN
    IF EntryTable[i] = "drum-machines" THEN StrLower(key)
    ELSE IF EntryTable[i] = "vcsl" THEN "vcsl_" \o key
    ELSE key

\* C11 as stated: the id of a drum-machine record is the lowercased machine
\* name, and the id of every record of every other table is the table key.
C11_OnlyDrumsDiffer ==
  Returned =>
    \A i \in 1..Len(bc_sounds) :
      IF EntryTable[i] = "drum-machines"
      THEN bc_sounds[i].id = StrLower(AllEntries[i][1])
      ELSE bc_sounds[i].id = AllEntries[i][1]

\* C11 as amended: the id of a drum-machine record is the lowercased machine
\* name (as long as the name, without a capital letter; AJKPercusyn gives
\* ajkpercusyn); the id of a VCSL record is "vcsl_" followed by the table
\* key; the id of every record of the other four tables is the table key.
C11_Ids ==
  Returned =>
    /\ Len(bc_sounds) = Len(AllEntries)
    /\ \A i \in 1..Len(bc_sounds) :
         /\ bc_sounds[i].id = ExpectedId(i)
         /\ EntryTable[i] = "drum-machines" =>
              /\ ~HasUpperCase(bc_sounds[i].id)
              /\ Len(bc_sounds[i].id) = Len(AllEntries[i][1])
         /\ AllEntries[i][1] = "AJKPercusyn" => bc_sounds[i].id = "ajkpercusyn"

C11_Witness ==
  /\ Returned
  /\ \E i \in 1..Len(bc_sounds) :
       /\ bc_sounds[i].source = "drum-machines"
       /\ bc_sounds[i].id # bc_sounds[i].name
  /\ \E i \in 1..Len(bc_sounds) :
       /\ bc_sounds[i].source = "vcsl"
       /\ bc_sounds[i].id # bc_sounds[i].name

\* C12 as stated: every record's description (but for the drum machines' kit
\* listing), category and tags are those of its table entry, unchanged.
C12_CopiedUnchanged ==
  Returned =>
    \A i \in 1..Len(bc_sounds) :
      LET data == AllEntries[i][2] IN
        /\ EntryTable[i] # "drum-machines" =>
             /\ bc_sounds[i].description = data.description
             /\ bc_sounds[i].category = data.category
        /\ bc_sounds[i].tags = data.tags

\* The tags build_catalog appends to the entry's tags, by table.
TagSuffix(table) ==
  IF table = "drum-machines" THEN <<"drum-machine", "kit">>
  ELSE IF table = "vcsl" THEN <<"vcsl", "acoustic", "sample-library">>
  ELSE IF table = "wavetables" THEN <<"looping", "synthesis">>
  ELSE <<>>

\* The example build_catalog generates for a key, by table.
ExampleTemplate(table, key) ==
  IF table = "dirt-samples" THEN "s(\"" \o key \o "\")"
  ELSE IF table = "drum-machines"
  THEN "s(\"bd sd hh hh\").bank(\"" \o key \o "\")"
  ELSE IF table = "vcsl" THEN "note(\"c4 e4 g4\").s(\"" \o key \o "\")"
  ELSE "note(\"c4 e4 g4\").s(\"" \o key \o "\").clip(2)"

\* C12 as amended: for every table entry the record's source is the constant
\* of the table; its description is the entry's (followed by the kit listing
\* for a drum machine); its category is the entry's (the constant
\* "drum_machine" for a drum machine, whose entry has none); its tags are the
\* entry's followed by the table's fixed tags (none for soundfonts, dirt
\* samples and builtin synths); its example is the entry's own for
\* soundfonts and builtin synths and the table's template otherwise.
C12_Transformation ==
  Returned =>
    \A i \in 1..Len(bc_sounds) :
      LET table == EntryTable[i]
          key == AllEntries[i][1]
          data == AllEntries[i][2]
          r == bc_sounds[i]
      IN  /\ r.source = table
          /\ r.name = key
          /\ r.description =
               IF table = "drum-machines"
               THEN data.description \o KitListing ELSE data.description
          /\ r.category =
               IF table = "drum-machines" THEN "drum_machine" ELSE data.category
          /\ r.tags = data.tags \o TagSuffix(table)
          /\ r.example =
               IF table \in {"soundfonts", "builtin"}
               THEN data.example ELSE ExampleTemplate(table, key)

C12_Witness ==
  /\ Returned
  /\ \E i \in 1..Len(bc_sounds) :
       /\ EntryTable[i] = "wavetables"
       /\ bc_sounds[i].tags # AllEntries[i][2].tags
  /\ \E i \in 1..Len(bc_sounds) :
       /\ EntryTable[i] = "soundfonts"
       /\ bc_sounds[i].tags = AllEntries[i][2].tags

\* C13: the list build_catalog returns is its tables one after the other in
\* the order of its loops, each in the insertion order of its keys, so the
\* records of one source are contiguous; and the file stage 2 writes holds
\* the records in the order it loaded them.
C13_Order ==
  /\ Returned =>
       /\ \A i \in 1..Len(bc_sounds) :
            /\ bc_sounds[i].source = EntryTable[i]
            /\ bc_sounds[i].name = AllEntries[i][1]
       /\ \A i \in 1..(Len(bc_sounds) - 1) :
            bc_sounds[i].source # bc_sounds[i + 1].source =>
              \A j \in (i + 1)..Len(bc_sounds) :
                bc_sounds[j].source # bc_sounds[i].source
  /\ Written =>
       /\ Len(Output) = Len(input)
       /\ \A i \in 1..Len(input) : Strip(Output[i]) = Strip(input[i])

C13_Witness ==
  /\ Written
  /\ input = build_catalog
  /\ Output[1].source # Output[Len(Output)].source

\* The ids build_catalog gives the entries of AllEntries, in order.
ExpectedIds == [i \in 1..Len(AllEntries) |-> ExpectedId(i)]

\* The pairs of table entries that map to the same id.
DuplicateIdPairs ==
  {p \in (1..Len(AllEntries)) \X (1..Len(AllEntries)) :
     p[1] < p[2] /\ ExpectedIds[p[1]] = ExpectedIds[p[2]]}

\* C19: build_catalog raises nothing on a duplicate id and drops no record:
\* whenever two table entries map to the same id, the file main writes holds
\* a record for each of them, both with that id.
C19_DuplicatesKept ==
  pc1 = "done" =>
    LET doc == JsonLoad(files[CatalogPath]) IN
      /\ Len(doc) = Len(AllEntries)
      /\ doc = bc_sounds
      /\ \A p \in DuplicateIdPairs :
           /\ doc[p[1]].id = ExpectedIds[p[1]]
           /\ doc[p[1]].name = AllEntries[p[1]][1]
           /\ doc[p[2]].id = ExpectedIds[p[2]]
           /\ doc[p[2]].name = AllEntries[p[2]][1]

C19_Witness ==
  /\ pc1 = "done"
  /\ \E i \in 1..Len(bc_sounds) : \E j \in (i + 1)..Len(bc_sounds) :
       /\ bc_sounds[i].id = bc_sounds[j].id
       /\ JsonLoad(files[CatalogPath])[i].source # JsonLoad(files[CatalogPath])[j].source

\* C14: every run of stage 1 writes the same document, the records of the
\* six tables in the order of the loops, indented by two, whatever the
\* files held when the run started and whatever ran before it.
C14_Deterministic ==
  /\ \A i \in 1..Len(dumps) : dumps[i] = JsonDump(build_catalog, Indented)
  /\ \A i \in 1..Len(dumps) : \A j \in 1..Len(dumps) : dumps[i] = dumps[j]
  /\ pc1 = "done" => files[CatalogPath] = dumps[Len(dumps)]

C14_Witness ==
  /\ pc1 = "done"
  /\ Len(dumps) = 2
  /\ files[CatalogPath] = dumps[1]

(***************************************************************************)
(* Properties of the model loading.                                        *)
(***************************************************************************)
\* The load_bge_m3 calls of the operation under way.
LoadCalls == SelectSeq(log, LAMBDA c : c.call = "load_bge_m3")

\* The model.encode calls of the operation under way.
EncodeCalls == SelectSeq(log, LAMBDA c : c.call = "encode")

\* x is an element of the sequence s
InSeq(x, s) == \E i \in 1..Len(s) : s[i] = x

\* A (model, tag) pair as load_bge_m3 returns it.
IsPair(m, tag) ==
  \/ tag = "flagembedding" /\ m.lib = "FlagEmbedding"
  \/ tag = "sentence-transformers" /\ m.lib = "SentenceTransformer"

\* C15: every call of load_bge_m3 tries FlagEmbedding first and, when it is
\* available, returns it tagged "flagembedding" without trying
\* sentence-transformers; it tries sentence-transformers only when
\* FlagEmbedding is not available and then, on success, returns it tagged
\* "sentence-transformers".  What main and the cache hold after a successful
\* load is one model with its own tag.
C15_Fallback ==
  /\ \A i \in 1..Len(LoadCalls) :
       LET c == LoadCalls[i] IN
         /\ Head(c.tried) = "FlagEmbedding"
         /\ c.flag_embedding = "ok" =>
              /\ c.raised = "none"
              /\ c.backend = "flagembedding"
              /\ c.tried = <<"FlagEmbedding">>
         /\ InSeq("sentence_transformers", c.tried) =>
              /\ c.flag_embedding # "ok"
              /\ c.tried = <<"FlagEmbedding", "sentence_transformers">>
              /\ c.raised = "none" => c.backend = "sentence-transformers"
         /\ c.raised = "none" =>
              c.backend \in {"flagembedding", "sentence-transformers"}
         /\ c.raised # "none" => c.backend = "none"
  /\ pc \in {"texts", "sample", "encode", "dimension", "attach", "save", "done"}
       => /\ IsPair(model, backend)
          /\ Len(LoadCalls) = 1
          /\ LoadCalls[1].backend = backend
  /\ model_cache # EmptyCache => IsPair(model_cache.model, model_cache.backend)
  /\ (pc = "returned" /\ LoadCalls # <<>> /\ error = "none")
       => LoadCalls[1].backend = model_cache.backend

C15_Witness ==
  /\ pc = "texts"
  /\ LoadCalls[1].flag_embedding = "missing"
  /\ LoadCalls[1].tried = <<"FlagEmbedding", "sentence_transformers">>
  /\ backend = "sentence-transformers"

\* The exceptions load_bge_m3 raises.
LoadErrors == {"ImportError", "LoadError"}

\* C16: when load_bge_m3 raises in main, main ends with that exception,
\* having built no text, made no model.encode call and written nothing; the
\* output file changes only in a run whose load succeeded.
C16_LoadFailureFatal ==
  [][/\ (pc = "load" /\ LoadCalls'[1].raised # "none") =>
          /\ pc' = "error"
          /\ error' = LoadCalls'[1].raised
          /\ error' \in LoadErrors
          /\ texts' = <<>>
          /\ embeddings' = <<>>
          /\ EncodeCalls' = <<>>
          /\ files' = files
     /\ (pc = "error" /\ error \in LoadErrors) =>
          /\ pc' = "idle"
          /\ files' = files
     /\ files'[OutputPath] # files[OutputPath] =>
          /\ pc = "save"
          /\ Len(LoadCalls) = 1
          /\ LoadCalls[1].raised = "none"
    ]_vars

C16_Witness ==
  /\ pc = "error"
  /\ error = "ImportError"
  /\ LoadCalls[1].tried = <<"FlagEmbedding", "sentence_transformers">>
  /\ Len(input) = 2
  /\ files[OutputPath] = NoFile

\* C17: a run of main calls load_bge_m3 at most once and model.encode at
\* most once; when either raises, main ends with that exception and the
\* files stay as they were; the output file changes only in a run whose one
\* model.encode call returned.
C17_NoRetry ==
  [][/\ Len(LoadCalls') <= 1
     /\ Len(EncodeCalls') <= 1
     /\ pc = "encode" =>
          /\ Len(EncodeCalls') = 1
          /\ pc' = "error" <=> error' = "InferenceError"
          /\ pc' # "error" => pc' = "dimension"
          /\ files' = files
     /\ pc = "error" =>
          /\ pc' = "idle"
          /\ files' = files
     /\ files'[OutputPath] # files[OutputPath] =>
          /\ pc = "save"
          /\ error = "none"
          /\ Len(EncodeCalls) = 1
    ]_vars

C17_Witness ==
  /\ pc = "error"
  /\ error = "InferenceError"
  /\ Len(EncodeCalls) = 1
  /\ files[OutputPath] # NoFile
  /\ runs = 2

(***************************************************************************)
(* Properties of main on a malformed catalog.                              *)
(***************************************************************************)
\* main is past the line that builds the search texts.
PastTexts == pc \in {"sample", "encode", "dimension", "attach", "save", "done"}

\* C18 as stated: a run whose catalog has a record without one of the seven
\* fields never gets past the building of the search texts.
C18_AnyFieldMissing ==
  PastTexts => \A i \in 1..Len(input) : SoundEntryKeys \subseteq DOMAIN input[i]

\* The key k is the first lookup that fails: the first record that lacks one
\* of the five keys build_search_text reads lacks k and has the keys read
\* before k.
FirstFailingLookup(k) ==
  \E i \in 1..Len(input) : \E n \in 1..Len(SearchKeys) :
    /\ k = SearchKeys[n]
    /\ k \notin DOMAIN input[i]
    /\ \A m \in 1..(n - 1) : SearchKeys[m] \in DOMAIN input[i]
    /\ \A j \in 1..(i - 1) :
         {"name", "description", "category", "source", "tags"}
           \subseteq DOMAIN input[j]

\* C18 as amended: when a record lacks one of the five fields
\* build_search_text reads (name, description, category, source, tags), main
\* ends with a KeyError for the first such lookup while it builds the
\* texts, and writes nothing; when every record has these five, main goes
\* on, whether or not a record lacks id or example.
C18_SearchFieldMissing ==
  [][/\ pc = "texts" =>
          IF \A i \in 1..Len(input) :
               {"name", "description", "category", "source", "tags"}
                 \subseteq DOMAIN input[i]
          THEN pc' = "sample" /\ error' = "none"
          ELSE /\ pc' = "error"
               /\ \E k \in {"name", "description", "category", "source", "tags"} :
                    /\ error' = "KeyError: " \o k
                    /\ FirstFailingLookup(k)
               /\ texts' = <<>>
               /\ files' = files
     /\ pc = "error" => pc' = "idle" /\ files' = files
     /\ files'[OutputPath] # files[OutputPath] =>
          \A i \in 1..Len(input) :
            {"name", "description", "category", "source", "tags"}
              \subseteq DOMAIN input[i]
    ]_vars

C18_Witness ==
  /\ pc = "error"
  /\ error = "KeyError: category"
  /\ input = MalformedCatalog
  /\ files[OutputPath] = NoFile

(***************************************************************************)
(* Properties of generate_embedding and the module-level cache.            *)
(***************************************************************************)
\* The step is a call of generate_embedding.
GenerateEmbeddingStep == pc = "idle" /\ pc' = "returned"

\* C20: the cache is empty until a generate_embedding call loads the model;
\* a call that finds the cache empty calls load_bge_m3 once and, when the
\* load succeeds, caches the model with its tag; a call that finds the
\* cache populated does not call load_bge_m3 and encodes with the cached
\* model; once populated, the cache is never changed or cleared by any step.
C20_LazyCache ==
  [][/\ runs = 0 => model_cache = EmptyCache
     /\ model_cache # EmptyCache => model_cache' = model_cache
     /\ model_cache' # model_cache => GenerateEmbeddingStep
     /\ GenerateEmbeddingStep =>
          /\ IF model_cache = EmptyCache
             THEN /\ Len(LoadCalls') = 1
                  /\ IF LoadCalls'[1].raised = "none"
                     THEN /\ model_cache'.backend = LoadCalls'[1].backend
                          /\ IsPair(model_cache'.model, model_cache'.backend)
                     ELSE model_cache' = EmptyCache
             ELSE LoadCalls' = <<>>
          /\ Len(EncodeCalls') <= 1
          /\ EncodeCalls' # <<>> =>
               /\ model_cache' # EmptyCache
               /\ EncodeCalls'[1].backend = model_cache'.backend
               /\ EncodeCalls'[1].texts = 1
          /\ error' = "none" =>
               /\ Len(EncodeCalls') = 1
               /\ \E text \in Queries : result' = Vec(model_cache'.model, text)
    ]_vars

C20_Witness ==
  /\ pc = "returned"
  /\ runs = 2
  /\ model_cache # EmptyCache
  /\ LoadCalls = <<>>
  /\ Len(EncodeCalls) = 1
  /\ result # NoVector

\* C21: in one process, over every order of main calls and
\* generate_embedding calls, load_bge_m3 returns a model at most once.
C21_LoadedOnce == loads <= 1

(***************************************************************************)
(* Properties of main's embedding call and of its order of steps.          *)
(***************************************************************************)
\* A call of main is under way.
InMain == pc \notin {"idle", "returned"}

\* C22: a run of main makes at most one model.encode call; the call gets
\* all the search texts, a batch size of 32 and a maximum length of 512,
\* with either library.
C22_OneCallBatch32Length512 ==
  InMain =>
    /\ Len(EncodeCalls) <= 1
    /\ \A i \in 1..Len(EncodeCalls) :
         /\ EncodeCalls[i].texts = Len(texts)
         /\ EncodeCalls[i].kwargs.batch_size = 32
         /\ "max_length" \in DOMAIN EncodeCalls[i].kwargs
         /\ EncodeCalls[i].kwargs.max_length = 512

\* C23: load_bge_m3 tries sentence-transformers exactly when the import of
\* FlagEmbedding raises ImportError; when FlagEmbedding imports and its
\* constructor raises another error, sentence-transformers is not tried,
\* even if it is installed, and the caller ends with that error.
C23_FallbackOnImportErrorOnly ==
  \A i \in 1..Len(LoadCalls) :
    LET c == LoadCalls[i] IN
      /\ InSeq("sentence_transformers", c.tried) <=> c.flag_embedding = "missing"
      /\ c.flag_embedding = "broken" =>
           /\ c.tried = <<"FlagEmbedding">>
           /\ c.raised = "LoadError"
           /\ c.backend = "none"
           /\ error = "LoadError"
           /\ pc \in {"error", "returned"}
           /\ pc = "error" => model = NoModel /\ texts = <<>>
           /\ pc = "returned" => result = NoVector /\ model_cache = EmptyCache

C23_Witness ==
  /\ pc = "error"
  /\ error = "LoadError"
  /\ LoadCalls[1].flag_embedding = "broken"
  /\ LoadCalls[1].sentence_transformers = "ok"
  /\ LoadCalls[1].tried = <<"FlagEmbedding">>

\* C24: in every state the cached model is None exactly when the cached
\* tag is None, and a populated cache holds a model with its own tag.
C24_CacheAllOrNothing ==
  /\ model_cache.model = NoModel <=> model_cache.backend = "none"
  /\ model_cache.model # NoModel =>
       IsPair(model_cache.model, model_cache.backend)

C24_Witness ==
  /\ pc = "returned"
  /\ error = "InferenceError"
  /\ Len(LoadCalls) = 1
  /\ model_cache.model # NoModel
  /\ model_cache.backend = "sentence-transformers"

\* C25: a generate_embedding call whose load raises leaves the cache empty
\* and ends with that exception; a call that finds the cache empty calls
\* load_bge_m3, whatever happened before, and when the load returns goes
\* on to model.encode with the model loaded and returns the vector encode
\* gives; a call whose model.encode raises leaves the model in the cache,
\* the one just loaded or the one found there.
C25_NoFailureCached ==
  [][GenerateEmbeddingStep =>
       /\ model_cache = EmptyCache => Len(LoadCalls') = 1
       /\ (LoadCalls' # <<>> /\ LoadCalls'[1].raised # "none") =>
            /\ model_cache' = EmptyCache
            /\ error' = LoadCalls'[1].raised
            /\ result' = NoVector
            /\ EncodeCalls' = <<>>
       /\ (LoadCalls' # <<>> /\ LoadCalls'[1].raised = "none") =>
            /\ model_cache'.backend = LoadCalls'[1].backend
            /\ Len(EncodeCalls') = 1
            /\ EncodeCalls'[1].backend = LoadCalls'[1].backend
            /\ error' \in {"none", "InferenceError", "IndexError"}
            /\ error' = "none" => Len(result') = ModelDim
       /\ error' = "InferenceError" =>
            /\ model_cache' # EmptyCache
            /\ model_cache # EmptyCache => model_cache' = model_cache
    ]_vars

C25_Witness ==
  /\ pc = "returned"
  /\ error \in LoadErrors
  /\ Len(LoadCalls) = 1
  /\ model_cache = EmptyCache
  /\ result = NoVector

\* C26: on a catalog with no records main loads the model, builds no text
\* and ends with an IndexError at the print of the sample text, having made
\* no model.encode call and written nothing; no run gets to the embedding
\* call with an empty catalog, and the output file never holds an empty list.
C26_EmptyCatalog ==
  [][/\ pc \in {"encode", "dimension", "attach", "save", "done"} =>
          input # <<>>
     /\ files[OutputPath] # NoFile => JsonLoad(files[OutputPath]) # <<>>
     /\ (pc = "texts" /\ input = <<>>) => pc' = "sample" /\ texts' = <<>>
     /\ (pc = "sample" /\ input = <<>>) =>
          /\ pc' = "error"
          /\ error' = "IndexError"
          /\ Len(LoadCalls') = 1
          /\ LoadCalls'[1].raised = "none"
          /\ model' # NoModel
          /\ EncodeCalls' = <<>>
          /\ files' = files
     /\ pc = "error" => pc' = "idle" /\ files' = files /\ EncodeCalls' = <<>>
    ]_vars

C26_Witness ==
  /\ pc = "error"
  /\ error = "IndexError"
  /\ input = <<>>
  /\ sounds = <<>>
  /\ model # NoModel
  /\ EncodeCalls = <<>>
  /\ files[OutputPath] = NoFile

\* C27 as stated: when model.encode gives fewer vectors than there are
\* records, main gets to the assembly loop and ends there, writing nothing;
\* when it gives more, the loop ends and the output is written.
C27_AbortsDuringAssembly ==
  [][/\ (pc = "dimension" /\ Len(embeddings) < Len(sounds)) => pc' = "attach"
     /\ (pc = "attach" /\ Len(embeddings) < Len(sounds)) =>
          pc' = "error" /\ files' = files
     /\ (pc = "attach" /\ Len(embeddings) > Len(sounds)) => pc' = "save"
    ]_vars

\* C27 as amended: main compares no lengths.  With no vector at all it ends
\* with an IndexError at the print of the embedding dimension, before the
\* assembly loop; with at least one vector and fewer vectors than records
\* it ends with an IndexError in the loop; both write nothing.  With as
\* many vectors as records or more, record i gets vector i, the vectors
\* beyond the last record are dropped, and the output is written.
C27_NoLengthCheck ==
  [][/\ pc = "dimension" =>
          IF embeddings = <<>>
          THEN /\ pc' = "error" /\ error' = "IndexError"
               /\ sounds' = sounds /\ files' = files
          ELSE pc' = "attach" /\ error' = "none"
     /\ pc = "attach" =>
          IF Len(embeddings) < Len(sounds)
          THEN /\ pc' = "error" /\ error' = "IndexError"
               /\ embeddings # <<>>
               /\ files' = files
          ELSE /\ pc' = "save" /\ error' = "none"
               /\ Len(sounds') = Len(sounds)
               /\ \A i \in 1..Len(sounds) :
                    sounds'[i].embedding = embeddings[i]
     /\ pc = "save" =>
          /\ Len(embeddings) >= Len(sounds)
          /\ files'[OutputPath] = JsonDump(sounds, Compact)
          /\ \A i \in 1..Len(sounds) : sounds[i].embedding = embeddings[i]
     /\ pc = "error" => pc' = "idle" /\ files' = files
    ]_vars

C27_Witness ==
  /\ pc = "error"
  /\ error = "IndexError"
  /\ Len(sounds) = 2
  /\ Len(embeddings) = 1
  /\ "embedding" \in DOMAIN sounds[1]
  /\ "embedding" \notin DOMAIN sounds[2]
  /\ files[OutputPath] = NoFile

\* The exceptions of a lookup in build_search_text.
KeyErrors == {"KeyError: " \o SearchKeys[i] : i \in 1..Len(SearchKeys)}

\* C28: main goes through read catalog, load model, build texts, print
\* sample, one model.encode call, print dimension, attach, write, in this
\* order, and leaves the order only by an exception.  A catalog file that
\* is missing or cannot be parsed ends the run before any load_bge_m3 call;
\* a KeyError comes only while the texts are built, with the model loaded;
\* the output file is written only in the step after the loop, when every
\* record has its embedding and its search_text.
C28_StepOrder ==
  [][/\ pc = "open" =>
          /\ pc' \in {"load", "error"}
          /\ LoadCalls' = <<>> /\ loads' = loads
          /\ files[catalog_path] \in {NoFile, Unparseable} =>
               /\ pc' = "error"
               /\ error' \in {"FileNotFoundError", "JSONDecodeError"}
     /\ pc = "load" =>
          /\ pc' \in {"texts", "error"}
          /\ LoadCalls = <<>> /\ Len(LoadCalls') = 1
          /\ texts' = <<>>
     /\ pc = "texts" =>
          /\ pc' \in {"sample", "error"}
          /\ model # NoModel /\ Len(LoadCalls) = 1
          /\ EncodeCalls' = <<>>
     /\ pc = "sample" => pc' \in {"encode", "error"} /\ EncodeCalls' = <<>>
     /\ pc = "encode" =>
          /\ pc' \in {"dimension", "error"}
          /\ Len(texts) = Len(sounds)
          /\ EncodeCalls = <<>> /\ Len(EncodeCalls') = 1
          /\ EncodeCalls'[1].texts = Len(texts)
     /\ pc = "dimension" => pc' \in {"attach", "error"} /\ sounds' = sounds
     /\ pc = "attach" => pc' \in {"save", "error"}
     /\ pc = "save" =>
          /\ pc' = "done"
          /\ \A i \in 1..Len(sounds) :
               {"embedding", "search_text"} \subseteq DOMAIN sounds[i]
          /\ files'[OutputPath] = JsonDump(sounds, Compact)
     /\ files'[OutputPath] # files[OutputPath] => pc = "save"
     /\ error' \in KeyErrors =>
          pc = "texts" /\ model' # NoModel /\ Len(LoadCalls') = 1
     /\ error' \in {"FileNotFoundError", "JSONDecodeError"} =>
          LoadCalls' = <<>> /\ model' = NoModel
    ]_vars

C28_Witness ==
  /\ pc = "error"
  /\ error = "JSONDecodeError"
  /\ files[catalog_path] = Unparseable
  /\ LoadCalls = <<>>
  /\ loads = 0

\* C29: when main has run on the output file of an earlier run, the file it
\* writes has as many records, in the same order, with the same fields (no
\* second `embedding` or `search_text`), the same values of the seven
\* catalog fields and the same search_text as the file it read.
C29_RerunOnOutput ==
  (Written /\ catalog_path = OutputPath) =>
    /\ Len(Output) = Len(input)
    /\ \A i \in 1..Len(input) :
         /\ {"embedding", "search_text"} \subseteq DOMAIN input[i]
         /\ DOMAIN Output[i] = DOMAIN input[i]
         /\ Strip(Output[i]) = Strip(input[i])
         /\ Output[i].search_text = input[i].search_text
         /\ Output[i].embedding = embeddings[i]

C29_Witness ==
  /\ Written
  /\ catalog_path = OutputPath
  /\ Len(input) = 2
  /\ Output[1].search_text = input[1].search_text
  /\ Output[1].embedding # input[1].embedding

=============================================================================
